---- MODULE Spec2Model ----
(***************************************************************************)
(* Beam-search prompt optimizer of the persona ranking system:             *)
(* PromptOptimizationService.runBeamSearchOptimization and the database    *)
(* rows it reads and writes.                                               *)
(*                                                                         *)
(* Numbers.  Metrics are JavaScript doubles in the source.  Here           *)
(* kendallTau and spearmanCorrelation are integers in thousandths, mae and *)
(* rmse integers in tenths; a computed percentage is an integer in         *)
(* ten-thousandths of a percent (FloatUnit), and a numeric(10, 2) column   *)
(* is an integer in hundredths.                                            *)
(***************************************************************************)
EXTENDS Integers, Sequences, FiniteSets, TLC

\* ---------------------------------------------------------------- bounds
MaxIterationsBound == 5
MaxVariants == 2
MaxBeamWidth == 2
\* Most valid variants handed to evaluateVariantsInMemory when only the
\* number of evaluations in progress is followed.
MaxDispatched == 21
\* Most texts in one response of the variant generation model.
MaxRawVariants == 3
\* Largest rank in a response of the ranking model.
MaxRank == 2
\* Most entries in one response of the ranking or qualification model.
MaxResponseLen == 2
MaxRetriesBound == 3

\* ------------------------------------------------------ program constants
CONVERGENCE_THRESHOLD == 10
MIN_ITERATIONS_BEFORE_CONVERGENCE == 2
MAX_TRAJECTORY_SIZE == 50
MIN_BEAM_WIDTH == 2
\* RANKING_CONFIG.CONCURRENCY: the cap of the fan-out over the groups of
\* one evaluation.
RANKING_CONFIG_CONCURRENCY == 20
RANKING_CONFIG_AI_MAX_RETRIES == 3
RANKING_CONFIG_AI_INITIAL_DELAY_MS == 500
SeedId == 1

FloatUnit == 100 * 100
NumericUnit == 100

NoError == "none"
NoRun == [status |-> "absent"]
NoOutcome == [kind |-> "pending"]

\* ----------------------------------------------------------- input sets
\* Evaluation results a model call can produce for a variant: a chain of
\* profiles in which each neighbour differs in exactly the next metric of
\* the tie-break order, the last pair differing in rmse only.
VariantMetrics ==
    { [kendallTau |-> 700, spearmanCorrelation |-> 700, mae |-> 20, rmse |-> 30],
      [kendallTau |-> 705, spearmanCorrelation |-> 700, mae |-> 20, rmse |-> 30],
      [kendallTau |-> 705, spearmanCorrelation |-> 800, mae |-> 20, rmse |-> 30],
      [kendallTau |-> 705, spearmanCorrelation |-> 800, mae |-> 15, rmse |-> 31],
      [kendallTau |-> 705, spearmanCorrelation |-> 800, mae |-> 15, rmse |-> 30] }

\* Metrics the starting prompt can have (stored, or computed lazily).
SeedMetrics ==
    { [kendallTau |-> k, spearmanCorrelation |-> 700, mae |-> 20, rmse |-> 30] :
        k \in {0 - 600, 0, 600} }

\* Prompt texts: the seed's, and the texts the variant generator can return.
SeedText == "seed"
VariantTexts == {"variant"}
EvalLeads == {"lead"}

\* The evaluation leads with a ground-truth rank, grouped by company in
\* the order of the select, and their ground-truth ranks.
evalLeads == << "a", "b", "c" >>
leadsByCompany == << << "a", "b" >>, << "c" >> >>
groundTruthRank(id) == IF id = "b" THEN 2 ELSE 1

\* A lead id that is not in the input of any call.
OutsideLead == "x"

\* REQUIRED_PROMPT_PLACEHOLDERS.
REQUIRED_PROMPT_PLACEHOLDERS ==
    { "{{PERSONA_SPEC}}", "{{QUALIFIED_LEADS_LIST}}", "{{QUALIFIED_LEADS_COUNT}}",
      "{{COMPANY_NAME}}", "{{COMPANY_DOMAIN}}", "{{EMPLOYEE_RANGE}}",
      "{{INDUSTRY}}" }

\* Texts the variant generation model can write that miss a placeholder:
\* one misses the last of the list only, one has none at all.
InvalidTexts == {"variant without INDUSTRY", "variant without placeholders"}

\* The required placeholders that occur in a text (what text.includes(p)
\* answers for each of them).
PlaceholdersIn(text) ==
    CASE text = "variant without INDUSTRY" ->
            REQUIRED_PROMPT_PLACEHOLDERS \ { "{{INDUSTRY}}" }
      [] text = "variant without placeholders" -> {}
      [] OTHER -> REQUIRED_PROMPT_PLACEHOLDERS

\* evaluateVariantsInMemory on its own: the seed's metrics, the metrics of
\* a best candidate found earlier, and the texts of the variants.
MergeSeedMetrics ==
    [kendallTau |-> 600, spearmanCorrelation |-> 700, mae |-> 20, rmse |-> 30]
MergeBestMetrics ==
    [kendallTau |-> 705, spearmanCorrelation |-> 800, mae |-> 15, rmse |-> 30]
MergeTexts == {"variant", "other variant"}

\* ------------------------------------------------------------- helpers
Min(a, b) == IF a < b THEN a ELSE b

Abs(x) == IF x < 0 THEN 0 - x ELSE x

\* Truncating division of a double-valued quotient at FloatUnit resolution.
TruncDiv(n, d) == IF n < 0 THEN 0 - ((0 - n) \div d) ELSE n \div d

\* String(error) of an Error object.
StringOfError(e) == "Error: " \o e

\* JavaScript `a || b` on numbers: the first operand unless it is 0.
OrElse(a, b) == IF a # 0 THEN a ELSE b

MetricsOf(c) ==
    [kendallTau |-> c.kendallTau, spearmanCorrelation |-> c.spearmanCorrelation,
     mae |-> c.mae, rmse |-> c.rmse]

\* The candidate built by evaluateVariantsInMemory for one variant text.
InMemoryCandidate(text, parent, m) ==
    [id |-> 0, promptText |-> text, parentVersionId |-> parent,
     rankings |-> EvalLeads,
     kendallTau |-> m.kendallTau, spearmanCorrelation |-> m.spearmanCorrelation,
     mae |-> m.mae, rmse |-> m.rmse]

\* initialBeam[0] of loadOrEvaluateBaseline.
BaselineCandidate(m) ==
    [id |-> SeedId, promptText |-> SeedText, parentVersionId |-> SeedId,
     rankings |-> {},
     kendallTau |-> m.kendallTau, spearmanCorrelation |-> m.spearmanCorrelation,
     mae |-> m.mae, rmse |-> m.rmse]

\* BeamCompare with rmse taken for the last tie-break.
BeamCompare_RmseTieBreak(a, b) ==
    OrElse(b.kendallTau - a.kendallTau,
           OrElse(b.spearmanCorrelation - a.spearmanCorrelation,
                  a.rmse - b.rmse))

\* Comparator of updateBeam: negative when a sorts before b.
BeamCompare(a, b) ==
    OrElse(b.kendallTau - a.kendallTau,
           OrElse(b.spearmanCorrelation - a.spearmanCorrelation,
                  a.mae - b.mae))

\* Comparator of pruneTrajectory.
TrajectoryCompare(a, b) == b.kendallTau - a.kendallTau

\* Array.prototype.sort: a stable sort.  cmp[i, j] is what the comparator
\* returns for (s[i], s[j]).  The element at index i ends after every
\* element that sorts strictly before it and after every earlier element
\* that compares equal to it.
SortPosition(s, cmp, i) ==
    1 + Cardinality({ j \in 1..Len(s) :
                        \/ cmp[j, i] < 0
                        \/ cmp[j, i] = 0 /\ j < i })

StableSort(s, cmp) ==
    LET position == [i \in 1..Len(s) |-> SortPosition(s, cmp, i)]
    IN [p \in 1..Len(s) |-> s[CHOOSE i \in 1..Len(s) : position[i] = p]]

\* Array.prototype.slice(0, n), n >= 0.
Slice(s, n) == SubSeq(s, 1, Min(n, Len(s)))

\* ------------------------------------------------- optimizer operators
\* validateBeamState: beam[0], or the baseline when the beam is empty.
validateBeamState(b, baseline) == IF b = <<>> THEN baseline ELSE b[1]

\* checkConvergence without the minimum number of iterations.
checkConvergence_NoFloor(newBest, previousBest, it) ==
    newBest.kendallTau - previousBest.kendallTau < CONVERGENCE_THRESHOLD

\* checkConvergence.
checkConvergence(newBest, previousBest, it) ==
    /\ newBest.kendallTau - previousBest.kendallTau < CONVERGENCE_THRESHOLD
    /\ it > MIN_ITERATIONS_BEFORE_CONVERGENCE

\* The loop test letting one more iteration through.
loopContinues_OffByOne(it, maxIterations) == it <= maxIterations

\* Loop test of runOptimizationLoop.
loopContinues(it, maxIterations) == it < maxIterations

\* updateBeam ranking the new candidates only.
updateBeam_DropsOldBeam(b, inMemoryCandidates, beamWidth) ==
    LET combined == inMemoryCandidates
        cmp == [i \in 1..Len(combined), j \in 1..Len(combined) |->
                   BeamCompare(combined[i], combined[j])]
    IN Slice(StableSort(combined, cmp), beamWidth)

\* updateBeam, the returned beam: existing beam followed by the new
\* candidates, sorted, cut to beamWidth.
updateBeam(b, inMemoryCandidates, beamWidth) ==
    LET combined == b \o inMemoryCandidates
        cmp == [i \in 1..Len(combined), j \in 1..Len(combined) |->
                   BeamCompare(combined[i], combined[j])]
    IN Slice(StableSort(combined, cmp), beamWidth)

\* updateBeam, its effect on state.allCandidates: each new candidate is
\* pushed unless a candidate with its text is already there.
RECURSIVE pushNewCandidates(_, _)
pushNewCandidates(all, cands) ==
    IF cands = <<>> THEN all
    ELSE pushNewCandidates(
            IF \E i \in 1..Len(all) : all[i].promptText = cands[1].promptText
            THEN all ELSE Append(all, cands[1]),
            Tail(cands))

\* pruneTrajectory that never drops anything.
pruneTrajectory_KeepsAll(all) == all

\* pruneTrajectory.
pruneTrajectory(all) ==
    IF Len(all) <= MAX_TRAJECTORY_SIZE THEN all
    ELSE Slice(StableSort(all, [i \in 1..Len(all), j \in 1..Len(all) |->
                                  TrajectoryCompare(all[i], all[j])]),
               MAX_TRAJECTORY_SIZE)

\* improvementPct dividing by the baseline itself, not by its magnitude.
ImprovementPct_NoAbs(best, baseline) ==
    IF baseline.kendallTau # 0
    THEN IF baseline.kendallTau < 0
         THEN 0 - TruncDiv((best.kendallTau - baseline.kendallTau) * 100 * FloatUnit,
                           Abs(baseline.kendallTau))
         ELSE TruncDiv((best.kendallTau - baseline.kendallTau) * 100 * FloatUnit,
                       baseline.kendallTau)
    ELSE 0

\* improvementPct of completeOptimizationRun and finalizeOptimization, as
\* a double (FloatUnit resolution).
ImprovementPct(best, baseline) ==
    IF baseline.kendallTau # 0
    THEN TruncDiv((best.kendallTau - baseline.kendallTau) * 100 * FloatUnit,
                  Abs(baseline.kendallTau))
    ELSE 0

\* improvementPct.toString() written to a numeric(10, 2) column: the
\* database rounds to two decimals, half away from zero.
ToNumeric2(x) ==
    LET half == (FloatUnit \div NumericUnit) \div 2
        q == (Abs(x) + half) \div (FloatUnit \div NumericUnit)
    IN IF x < 0 THEN 0 - q ELSE q

\* --------------------------------------------------------------- state
VARIABLES
    pc,                \* position of runBeamSearchOptimization
    config,            \* OptimizationConfig
    run,               \* the optimization_runs row (NoRun before insert)
    statusWrites,      \* number of updates applied to that row
    promptVersions,    \* prompt_versions rows, indexed by id; row 1 is the seed
    evaluationResults, \* ids of the versions that have evaluation_results rows
    seedWasEvaluated,  \* whether the seed had metrics when the run started
    beam,              \* state.beam
    allCandidates,     \* state.allCandidates
    baselineMetrics,   \* state.baselineMetrics
    iteration,         \* loop variable of runOptimizationLoop
    iterationsRun,     \* number of runIteration calls that returned
    convergedEarly,    \* result of runOptimizationLoop
    variants,          \* texts returned by generateVariants
    persistedBeam,     \* accumulator of persistFinalBeam
    error,             \* the error caught by runBeamSearchOptimization
    outcome,           \* what the called operation returned or threw
    settled,           \* evaluateVariantsInMemory: result of each evaluation, or Pending
    completionOrder,   \* indices of the variants in the order their evaluations completed
    evaluationsRunning,\* evaluateVariantsInMemory: evaluations started and not yet settled
    rawVariants,       \* generateVariants: texts returned by the model
    groupRankings,     \* runEvaluationCore: what rankQualifiedLeads returned per company
    leads,             \* input leads of rankQualifiedLeads / qualifyLeads
    modelCalls,        \* leads listed in the prompt of each model call made, in order
    rankings,          \* rankings array of the ranking agent
    qualifications,    \* qualifications array of the qualification agent
    leadsTable,        \* leads rows: qualified column (processSingleBatch)
    retryOptions,      \* retryWithBackoff: maxRetries and initialDelayMs in force
    attempt,           \* retryWithBackoff: loop variable
    lastError,         \* retryWithBackoff: message of the last error caught
    fnCalls,           \* retryWithBackoff: how each call of fn settled, in order
    delaysWaited,      \* retryWithBackoff: delayMs of each timer set, in order
    generatorCall      \* params of the optimizer's last generateVariants call

vars == << pc, config, run, statusWrites, promptVersions, evaluationResults,
           seedWasEvaluated, beam, allCandidates, baselineMetrics, iteration,
           iterationsRun, convergedEarly, variants, persistedBeam, error,
           outcome, settled, completionOrder, evaluationsRunning, rawVariants,
           groupRankings, leads, modelCalls, rankings, qualifications,
           leadsTable, retryOptions, attempt, lastError, fnCalls,
           delaysWaited, generatorCall >>

\* State of the generator and agent calls.
agentVars == << rawVariants, groupRankings, leads, modelCalls, rankings,
                qualifications, leadsTable >>

\* State of one call of retryWithBackoff.
retryVars == << retryOptions, attempt, lastError, fnCalls, delaysWaited >>

\* State of the operations that are also called on their own.
componentVars == << settled, completionOrder, evaluationsRunning, rawVariants,
                    groupRankings, leads, modelCalls, rankings, qualifications,
                    leadsTable, retryVars, generatorCall >>

\* generateAndEvaluateVariants has not called the generator.
NoGeneratorCall == [currentPrompt |-> "none", numVariants |-> 0]

NoRetryOptions == [maxRetries |-> 0, initialDelayMs |-> 0]

\* No call of retryWithBackoff is in progress.
RetryIdle ==
    /\ retryOptions = NoRetryOptions
    /\ attempt = 0
    /\ lastError = NoError
    /\ fnCalls = <<>>
    /\ delaysWaited = <<>>

NoMetrics == [kendallTau |-> "null"]

SeedRow(m) ==
    [promptText |-> SeedText, parentVersionId |-> 0, optimizationRunId |-> 0,
     iterationNumber |-> 0, beamRank |-> 0, metrics |-> m]

Configs ==
    [maxIterations : 1..MaxIterationsBound,
     variantsPerIteration : {MaxVariants},
     beamWidth : MIN_BEAM_WIDTH..MaxBeamWidth]

\* No operation other than the workflow is in progress.
ComponentsIdle ==
    /\ settled = <<>>
    /\ completionOrder = <<>>
    /\ evaluationsRunning = 0
    /\ rawVariants = <<>>
    /\ groupRankings = <<>>
    /\ leads = <<>>
    /\ modelCalls = <<>>
    /\ rankings = <<>>
    /\ qualifications = <<>>
    /\ leadsTable = <<>>
    /\ RetryIdle
    /\ generatorCall = NoGeneratorCall

\* optimizePromptWorkflow is called for a starting prompt.
OptimizePromptWorkflowCalled ==
    /\ pc = "create"
    /\ config \in Configs
    /\ run = NoRun
    /\ statusWrites = 0
    /\ seedWasEvaluated \in BOOLEAN
    /\ \E m \in SeedMetrics :
          promptVersions = << SeedRow(IF seedWasEvaluated THEN m ELSE NoMetrics) >>
    /\ evaluationResults = IF seedWasEvaluated THEN {SeedId} ELSE {}
    /\ beam = <<>>
    /\ allCandidates = <<>>
    /\ baselineMetrics = NoMetrics
    /\ iteration = 0
    /\ iterationsRun = 0
    /\ convergedEarly = FALSE
    /\ variants = <<>>
    /\ persistedBeam = <<>>
    /\ error = NoError
    /\ outcome = NoOutcome
    /\ ComponentsIdle

dbVars == << run, statusWrites, promptVersions, evaluationResults >>
loopVars == << iteration, iterationsRun, convergedEarly >>

\* An await inside the try block of runBeamSearchOptimization rejects: the
\* catch clause gets the error; the OptimizationState, local to the try
\* block, is out of reach from there on.
Throw(e) ==
    /\ pc' = "catch"
    /\ error' = e
    /\ beam' = <<>>
    /\ allCandidates' = <<>>
    /\ variants' = <<>>
    /\ persistedBeam' = <<>>
    /\ UNCHANGED << config, seedWasEvaluated, baselineMetrics, loopVars, outcome >>

\* ------------------------------------------------------------- actions
\* createOptimizationRun: the row is inserted with status running.
CreateOptimizationRun ==
    /\ pc = "create"
    /\ run' = [status |-> "running", startingPromptId |-> SeedId,
               bestPromptId |-> 0, totalIterations |-> 0,
               totalPromptsGenerated |-> 0, improvementPercentage |-> 0,
               errorMessage |-> NoError]
    /\ pc' = "init"
    /\ UNCHANGED << config, statusWrites, promptVersions, evaluationResults,
                    seedWasEvaluated, beam, allCandidates, baselineMetrics,
                    loopVars, variants, persistedBeam, error, outcome >>
    /\ UNCHANGED componentVars

\* createOptimizationRun throws, outside the try block: the workflow
\* rejects and no row exists.
CreateOptimizationRunThrows ==
    /\ pc = "create"
    /\ pc' = "rejected"
    /\ outcome' = [kind |-> "throw", error |-> "Failed to create optimization run"]
    /\ UNCHANGED << config, dbVars, seedWasEvaluated, beam, allCandidates,
                    baselineMetrics, loopVars, variants, persistedBeam, error >>
    /\ UNCHANGED componentVars

\* loadOrEvaluateBaseline, the seed already has metrics: they are read
\* from its row.  initializeOptimizationState then builds the state and
\* runOptimizationLoop starts at iteration 0.
LoadBaseline ==
    /\ pc = "init"
    /\ promptVersions[SeedId].metrics # NoMetrics
    /\ baselineMetrics' = promptVersions[SeedId].metrics
    /\ beam' = << BaselineCandidate(promptVersions[SeedId].metrics) >>
    /\ allCandidates' = <<>>
    /\ pc' = IF loopContinues(0, config.maxIterations) THEN "gradient" ELSE "persist"
    /\ UNCHANGED << config, dbVars, seedWasEvaluated, loopVars, variants,
                    persistedBeam, error, outcome >>
    /\ UNCHANGED componentVars

\* loadOrEvaluateBaseline, the seed has no metrics: evaluatePrompt runs
\* the evaluation, inserts its evaluation_results rows and writes the
\* metrics to the seed's row.
EvaluateBaseline ==
    /\ pc = "init"
    /\ promptVersions[SeedId].metrics = NoMetrics
    /\ \E m \in SeedMetrics :
         /\ evaluationResults' = evaluationResults \cup {SeedId}
         /\ promptVersions' = [promptVersions EXCEPT ![SeedId].metrics = m]
         /\ baselineMetrics' = m
         /\ beam' = << BaselineCandidate(m) >>
    /\ allCandidates' = <<>>
    /\ pc' = IF loopContinues(0, config.maxIterations) THEN "gradient" ELSE "persist"
    /\ UNCHANGED << config, run, statusWrites, seedWasEvaluated, loopVars,
                    variants, persistedBeam, error, outcome >>
    /\ UNCHANGED componentVars

\* loadOrEvaluateBaseline throws: the evaluation itself fails (nothing
\* written), or the insert of the evaluation_results rows fails (nothing
\* written), or the update of the seed's metrics fails after the insert.
EvaluateBaselineThrows ==
    /\ pc = "init"
    /\ promptVersions[SeedId].metrics = NoMetrics
    /\ \E e \in { "Cannot calculate MAE: empty arrays",
                  "insert evaluation_results failed",
                  "update prompt_versions failed" } :
         /\ evaluationResults' =
               IF e = "update prompt_versions failed"
               THEN evaluationResults \cup {SeedId} ELSE evaluationResults
         /\ Throw(e)
    /\ UNCHANGED << run, statusWrites, promptVersions >>
    /\ UNCHANGED componentVars

\* The select of the starting prompt finds no row.
LoadBaselineThrows ==
    /\ pc = "init"
    /\ Throw("Starting prompt not found")
    /\ UNCHANGED dbVars
    /\ UNCHANGED componentVars

\* prepareIterationGradient returns the critique of beam[0].
PrepareIterationGradient ==
    /\ pc = "gradient"
    /\ pc' = "variants"
    /\ UNCHANGED << config, dbVars, seedWasEvaluated, beam, allCandidates,
                    baselineMetrics, loopVars, variants, persistedBeam, error,
                    outcome >>
    /\ UNCHANGED componentVars

PrepareIterationGradientThrows ==
    /\ pc = "gradient"
    /\ Throw("gradient generation failed")
    /\ UNCHANGED dbVars
    /\ UNCHANGED componentVars

\* findMissingPlaceholders: the required placeholders not in the variant.
findMissingPlaceholders(variant) ==
    { placeholder \in REQUIRED_PROMPT_PLACEHOLDERS :
        ~(placeholder \in PlaceholdersIn(variant)) }

\* validateVariantPlaceholders(variant).isValid
validateVariantPlaceholders(variant) ==
    Cardinality(findMissingPlaceholders(variant)) = 0

\* filterValidVariants that lets every text through.
filterValidVariants_KeepsAll(vs) == vs

\* filterValidVariants: the variants with no placeholder missing, in order.
filterValidVariants(vs) ==
    SelectSeq(vs, LAMBDA variant : validateVariantPlaceholders(variant))

\* generateVariants, given the model's response: the valid ones, cut to
\* numVariants.
generateVariants(raw, numVariants) ==
    Slice(filterValidVariants(raw), numVariants)

\* Responses of the variant generation model over the given texts.
RawResponses(texts) ==
    UNION { [1..n -> texts] : n \in 0..MaxRawVariants }

\* generateAndEvaluateVariants calls the generator once, with the prompt
\* of currentBest.  generateVariants returns the valid texts of the
\* model's response, at most numVariants of them, possibly none.
GenerateVariants ==
    /\ pc = "variants"
    /\ \E raw \in RawResponses(VariantTexts \cup {"variant without INDUSTRY"}) :
         variants' = generateVariants(raw, config.variantsPerIteration)
    /\ \E currentBest \in {validateBeamState(beam, BaselineCandidate(baselineMetrics))} :
         generatorCall' = [currentPrompt |-> currentBest.promptText,
                           numVariants |-> config.variantsPerIteration]
    /\ pc' = "evaluate"
    /\ UNCHANGED << config, dbVars, seedWasEvaluated, beam, allCandidates,
                    baselineMetrics, loopVars, persistedBeam, error, outcome >>
    /\ UNCHANGED << settled, completionOrder, evaluationsRunning, agentVars,
                    retryVars >>

GenerateVariantsThrows ==
    /\ pc = "variants"
    /\ Throw("variant generation failed")
    /\ UNCHANGED dbVars
    /\ UNCHANGED componentVars

\* generateAndEvaluateVariants: currentBest's id if it is persisted,
\* otherwise its parent.
ParentVersionIdOf(currentBest) ==
    OrElse(currentBest.id, currentBest.parentVersionId)

\* evaluateVariantsInMemory resolves with one candidate per variant; the
\* rest of runIteration and the loop test of runOptimizationLoop follow
\* without another await: updateBeam, pruneTrajectory, checkConvergence.
\* Each local is bound over a singleton set, so it is computed once per
\* step.
EvaluateVariantsAndUpdateBeam ==
    /\ pc = "evaluate"
    /\ \E ms \in [1..Len(variants) -> VariantMetrics] :
       \E currentBest \in {validateBeamState(beam, BaselineCandidate(baselineMetrics))} :
       \E inMemoryCandidates \in
             {[i \in 1..Len(variants) |->
                 InMemoryCandidate(variants[i], ParentVersionIdOf(currentBest), ms[i])]} :
       \E newBeam \in {updateBeam(beam, inMemoryCandidates, config.beamWidth)} :
       \E converged \in
             {checkConvergence(validateBeamState(newBeam, BaselineCandidate(baselineMetrics)),
                               currentBest, iteration)} :
         /\ beam' = newBeam
         /\ allCandidates' =
               pruneTrajectory(pushNewCandidates(allCandidates, inMemoryCandidates))
         /\ iterationsRun' = iterationsRun + 1
         /\ convergedEarly' = converged
         /\ iteration' = IF converged THEN iteration ELSE iteration + 1
         /\ pc' = IF ~converged /\ loopContinues(iteration + 1, config.maxIterations)
                  THEN "gradient" ELSE "persist"
    /\ variants' = <<>>
    /\ UNCHANGED << config, dbVars, seedWasEvaluated, baselineMetrics,
                    persistedBeam, error, outcome >>
    /\ UNCHANGED componentVars

\* evaluateVariantsInMemory that also rejects when no variant survived.
EvaluateVariantsThrows_OnEmpty ==
    /\ pc = "evaluate"
    /\ Throw("Cannot calculate MAE: empty arrays")
    /\ UNCHANGED dbVars
    /\ UNCHANGED componentVars

\* One of the variant evaluations rejects: Promise.all rejects with it.
EvaluateVariantsThrows ==
    /\ pc = "evaluate"
    /\ Len(variants) > 0
    /\ Throw("Cannot calculate MAE: empty arrays")
    /\ UNCHANGED dbVars
    /\ UNCHANGED componentVars

\* actualIterations without the step from the 0-based index to a count.
actualIterations_FinalIteration == iteration

\* actualIterations of finalizeOptimization.
actualIterations == IF convergedEarly THEN iteration + 1 ELSE iteration

\* What persistFinalBeam pushes for a candidate: a BeamCandidate.
BeamCandidateOf(c, id) ==
    [id |-> id, promptText |-> c.promptText,
     kendallTau |-> c.kendallTau, spearmanCorrelation |-> c.spearmanCorrelation,
     mae |-> c.mae, rmse |-> c.rmse]

\* The row persistNewPromptVersion inserts (metrics are written later, by
\* persistEvaluationResults).
NewVersionRow(c, rank) ==
    [promptText |-> c.promptText, parentVersionId |-> c.parentVersionId,
     optimizationRunId |-> 1, iterationNumber |-> actualIterations,
     beamRank |-> rank + 1, metrics |-> NoMetrics]

\* After persistFinalBeam has handled beam[rank + 1]: next member, or
\* completeOptimizationRun.
AfterPersist(newPersisted) ==
    /\ persistedBeam' = newPersisted
    /\ pc' = IF Len(newPersisted) < Len(beam) THEN "persist" ELSE "complete"

\* persistFinalBeam without the skip: the baseline is inserted as a new
\* version like any other member.
SkipBaseline_InsertsBaseline ==
    /\ pc = "persist"
    /\ Len(persistedBeam) < Len(beam)
    /\ LET rank == Len(persistedBeam)
           candidate == beam[rank + 1]
           newId == Len(promptVersions) + 1
       IN /\ candidate.id # 0
          /\ promptVersions' =
                Append(promptVersions,
                       [NewVersionRow(candidate, rank) EXCEPT !.metrics = MetricsOf(candidate)])
          /\ AfterPersist(Append(persistedBeam, BeamCandidateOf(candidate, newId)))
    /\ UNCHANGED << config, run, statusWrites, evaluationResults, seedWasEvaluated,
                    beam, allCandidates, baselineMetrics, loopVars, variants,
                    error, outcome >>
    /\ UNCHANGED componentVars

\* persistFinalBeam, a candidate with an id (the baseline): it is pushed
\* as it is, nothing is written.
SkipBaseline ==
    /\ pc = "persist"
    /\ Len(persistedBeam) < Len(beam)
    /\ LET candidate == beam[Len(persistedBeam) + 1]
       IN /\ candidate.id # 0
          /\ AfterPersist(Append(persistedBeam, BeamCandidateOf(candidate, candidate.id)))
    /\ UNCHANGED << config, dbVars, seedWasEvaluated, beam, allCandidates,
                    baselineMetrics, loopVars, variants, error, outcome >>
    /\ UNCHANGED componentVars

\* persistFinalBeam, a candidate without id: persistNewPromptVersion
\* inserts its row, persistEvaluationResults inserts its evaluation
\* records (when there are any) and writes its metrics.
PersistNewPromptVersion ==
    /\ pc = "persist"
    /\ Len(persistedBeam) < Len(beam)
    /\ LET rank == Len(persistedBeam)
           candidate == beam[rank + 1]
           newId == Len(promptVersions) + 1
       IN /\ candidate.id = 0
          /\ promptVersions' =
                Append(promptVersions,
                       [NewVersionRow(candidate, rank) EXCEPT !.metrics = MetricsOf(candidate)])
          /\ evaluationResults' =
                IF candidate.rankings # {} THEN evaluationResults \cup {newId}
                ELSE evaluationResults
          /\ AfterPersist(Append(persistedBeam, BeamCandidateOf(candidate, newId)))
    /\ UNCHANGED << config, run, statusWrites, seedWasEvaluated, beam,
                    allCandidates, baselineMetrics, loopVars, variants, error,
                    outcome >>
    /\ UNCHANGED componentVars

\* persistNewPromptVersion throws: at the insert of the version (nothing
\* written), at the insert of the evaluation records (the version row is
\* there, without metrics), or at the update of the metrics (row and
\* records are there).
PersistNewPromptVersionThrows ==
    /\ pc = "persist"
    /\ Len(persistedBeam) < Len(beam)
    /\ LET rank == Len(persistedBeam)
           candidate == beam[rank + 1]
           newId == Len(promptVersions) + 1
       IN /\ candidate.id = 0
          /\ \E e \in { "Failed to create prompt version",
                        "insert evaluation_results failed",
                        "update prompt_versions failed" } :
               /\ promptVersions' =
                     IF e = "Failed to create prompt version" THEN promptVersions
                     ELSE Append(promptVersions, NewVersionRow(candidate, rank))
               /\ evaluationResults' =
                     IF e = "update prompt_versions failed" /\ candidate.rankings # {}
                     THEN evaluationResults \cup {newId} ELSE evaluationResults
               /\ Throw(e)
    /\ UNCHANGED << run, statusWrites >>
    /\ UNCHANGED componentVars

\* completeOptimizationRun updates the run's row; finalizeOptimization
\* computes the percentage again and returns; optimizePromptWorkflow
\* returns it to its caller.
CompleteOptimizationRun ==
    /\ pc = "complete"
    /\ LET bestPrompt == persistedBeam[1]
       IN /\ run' = [run EXCEPT
                       !.status = "completed",
                       !.bestPromptId = bestPrompt.id,
                       !.totalIterations = actualIterations,
                       !.totalPromptsGenerated = Len(allCandidates),
                       !.improvementPercentage =
                           ToNumeric2(ImprovementPct(MetricsOf(bestPrompt), baselineMetrics))]
          /\ outcome' = [kind |-> "return", success |-> TRUE,
                         bestPromptId |-> bestPrompt.id,
                         improvementPercentage |->
                             ImprovementPct(bestPrompt, baselineMetrics)]
    /\ statusWrites' = statusWrites + 1
    /\ pc' = "done"
    /\ UNCHANGED << config, promptVersions, evaluationResults, seedWasEvaluated,
                    beam, allCandidates, baselineMetrics, loopVars, variants,
                    persistedBeam, error >>
    /\ UNCHANGED componentVars

\* completeOptimizationRun throwing after its update was applied.
CompleteOptimizationRunThrows_AfterUpdate ==
    /\ pc = "complete"
    /\ run' = [run EXCEPT !.status = "completed",
                          !.bestPromptId = persistedBeam[1].id]
    /\ statusWrites' = statusWrites + 1
    /\ Throw("update optimization_runs failed")
    /\ UNCHANGED << promptVersions, evaluationResults >>
    /\ UNCHANGED componentVars

\* The update of completeOptimizationRun throws.
CompleteOptimizationRunThrows ==
    /\ pc = "complete"
    /\ Throw("update optimization_runs failed")
    /\ UNCHANGED dbVars
    /\ UNCHANGED componentVars

\* handleBeamSearchError throwing a new error in place of the caught one.
MarkOptimizationRunFailed_ThrowsNewError ==
    /\ pc = "catch"
    /\ run' = [run EXCEPT !.status = "failed",
                          !.errorMessage = StringOfError(error)]
    /\ statusWrites' = statusWrites + 1
    /\ outcome' = [kind |-> "throw", error |-> "Optimization failed"]
    /\ pc' = "rejected"
    /\ UNCHANGED << config, promptVersions, evaluationResults, seedWasEvaluated,
                    beam, allCandidates, baselineMetrics, loopVars, variants,
                    persistedBeam, error >>
    /\ UNCHANGED componentVars

\* handleBeamSearchError: markOptimizationRunFailed updates the row, then
\* the caught error is thrown again.
MarkOptimizationRunFailed ==
    /\ pc = "catch"
    /\ run' = [run EXCEPT !.status = "failed",
                          !.errorMessage = StringOfError(error)]
    /\ statusWrites' = statusWrites + 1
    /\ outcome' = [kind |-> "throw", error |-> error]
    /\ pc' = "rejected"
    /\ UNCHANGED << config, promptVersions, evaluationResults, seedWasEvaluated,
                    beam, allCandidates, baselineMetrics, loopVars, variants,
                    persistedBeam, error >>
    /\ UNCHANGED componentVars

\* The update of markOptimizationRunFailed throws: that error leaves
\* handleBeamSearchError instead, and the row is not written.
MarkOptimizationRunFailedThrows ==
    /\ pc = "catch"
    /\ outcome' = [kind |-> "throw", error |-> "update optimization_runs failed"]
    /\ pc' = "rejected"
    /\ UNCHANGED << config, dbVars, seedWasEvaluated, beam, allCandidates,
                    baselineMetrics, loopVars, variants, persistedBeam, error >>
    /\ UNCHANGED componentVars

\* ------------------------------------ evaluateVariantsInMemory on its own
\* One iteration's evaluation of the variants, settling one by one.
Pending == [status |-> "pending"]

\* A promise fulfilled with the value v.
Fulfilled(v) == [status |-> "fulfilled", value |-> v]

\* The optimizer's variables that no component touches.
runVars == << run, statusWrites, promptVersions, evaluationResults,
              seedWasEvaluated, loopVars, persistedBeam, error, retryVars,
              generatorCall >>

\* The optimizer at rest.
OptimizerIdle ==
    /\ run = NoRun
    /\ statusWrites = 0
    /\ seedWasEvaluated = TRUE
    /\ promptVersions = << SeedRow(MergeSeedMetrics) >>
    /\ evaluationResults = {SeedId}
    /\ iteration = 0
    /\ iterationsRun = 0
    /\ convergedEarly = FALSE
    /\ persistedBeam = <<>>
    /\ error = NoError
    /\ generatorCall = NoGeneratorCall

\* Beams an iteration can start with: the seed alone, or an unpersisted
\* candidate above the seed (then also on the trajectory).
MergeBeams ==
    { << BaselineCandidate(MergeSeedMetrics) >>,
      << InMemoryCandidate("variant", SeedId, MergeBestMetrics),
         BaselineCandidate(MergeSeedMetrics) >> }

\* generateAndEvaluateVariants has called evaluateVariantsInMemory: every
\* evaluation is started by the map, none has settled.
EvaluateVariantsInMemoryCalled ==
    /\ pc = "settling"
    /\ config \in Configs
    /\ baselineMetrics = MergeSeedMetrics
    /\ beam \in MergeBeams
    /\ allCandidates = SubSeq(beam, 1, Len(beam) - 1)
    /\ \E n \in 0..config.variantsPerIteration : variants \in [1..n -> MergeTexts]
    /\ settled = [i \in 1..Len(variants) |-> Pending]
    /\ completionOrder = <<>>
    /\ evaluationsRunning = Len(variants)
    /\ outcome = NoOutcome
    /\ OptimizerIdle
    /\ rawVariants = <<>>
    /\ groupRankings = <<>>
    /\ leads = <<>>
    /\ modelCalls = <<>>
    /\ rankings = <<>>
    /\ qualifications = <<>>
    /\ leadsTable = <<>>
    /\ RetryIdle

\* A trajectory late in a run: n candidates with different texts, either
\* all with the same metrics or with kendallTau rising with the index.
TrajectoryProfiles == {"tied", "rising"}
LateTrajectory(n, profile) ==
    [k \in 1..n |->
        InMemoryCandidate("variant " \o ToString(k), SeedId,
            [kendallTau |-> IF profile = "tied" THEN 705 ELSE 700 + k,
             spearmanCorrelation |-> 700, mae |-> 20, rmse |-> 30])]

\* Texts of the variants of a late iteration: a new text, and a text that
\* is on the trajectory.
LateTexts == {"new variant", "variant 1"}

\* evaluateVariantsInMemory is called late in a run: the trajectory is
\* full or one short of full, the beam is the top of it.
EvaluateVariantsInMemoryCalledLate ==
    /\ pc = "settling"
    /\ config = [maxIterations |-> MaxIterationsBound,
                 variantsPerIteration |-> MaxVariants,
                 beamWidth |-> MIN_BEAM_WIDTH]
    /\ baselineMetrics = MergeSeedMetrics
    /\ \E n \in (MAX_TRAJECTORY_SIZE - 1)..MAX_TRAJECTORY_SIZE :
       \E profile \in TrajectoryProfiles :
          allCandidates = LateTrajectory(n, profile)
    /\ beam = updateBeam(<<>>, allCandidates, config.beamWidth)
    /\ \E n \in 1..config.variantsPerIteration : variants \in [1..n -> LateTexts]
    /\ settled = [i \in 1..Len(variants) |-> Pending]
    /\ completionOrder = <<>>
    /\ evaluationsRunning = Len(variants)
    /\ outcome = NoOutcome
    /\ OptimizerIdle
    /\ rawVariants = <<>>
    /\ groupRankings = <<>>
    /\ leads = <<>>
    /\ modelCalls = <<>>
    /\ rankings = <<>>
    /\ qualifications = <<>>
    /\ leadsTable = <<>>
    /\ RetryIdle

\* One evaluation resolves with its metrics.
SettleVariantEvaluation ==
    /\ pc = "settling"
    /\ \E i \in 1..Len(variants) :
         /\ settled[i] = Pending
         /\ \E m \in VariantMetrics : settled' = [settled EXCEPT ![i] = Fulfilled(m)]
         /\ completionOrder' = Append(completionOrder, i)
    /\ evaluationsRunning' = evaluationsRunning - 1
    /\ UNCHANGED << pc, config, beam, allCandidates, baselineMetrics, variants,
                    outcome, runVars, agentVars >>

\* One evaluation rejects: Promise.all rejects with its error at once.
SettleVariantEvaluationRejects ==
    /\ pc = "settling"
    /\ \E i \in 1..Len(variants) : settled[i] = Pending
    /\ pc' = "merge rejected"
    /\ outcome' = [kind |-> "throw", error |-> "Cannot calculate MAE: empty arrays"]
    /\ UNCHANGED << config, beam, allCandidates, baselineMetrics, variants,
                    settled, completionOrder, evaluationsRunning, runVars,
                    agentVars >>

\* Promise.all collecting the values in the order the promises settled.
PromiseAll_InCompletionOrder(results, order) ==
    [k \in 1..Len(results) |-> results[order[k]].value]

\* Promise.all: the resolved values in the order of the promises, in
\* whatever order they settled.
PromiseAll(results, order) ==
    [i \in 1..Len(results) |-> results[i].value]

\* Every evaluation has settled: Promise.all resolves, and runIteration
\* updates the beam and the trajectory.
ResolveAndUpdateBeam ==
    /\ pc = "settling"
    /\ \A i \in 1..Len(variants) : settled[i] # Pending
    /\ \E ms \in {PromiseAll(settled, completionOrder)} :
       \E currentBest \in {validateBeamState(beam, BaselineCandidate(baselineMetrics))} :
       \E inMemoryCandidates \in
             {[i \in 1..Len(variants) |->
                 InMemoryCandidate(variants[i], ParentVersionIdOf(currentBest), ms[i])]} :
         /\ beam' = updateBeam(beam, inMemoryCandidates, config.beamWidth)
         /\ allCandidates' =
               pruneTrajectory(pushNewCandidates(allCandidates, inMemoryCandidates))
    /\ pc' = "merged"
    /\ UNCHANGED << config, baselineMetrics, variants, outcome, settled,
                    completionOrder, evaluationsRunning, runVars, agentVars >>

\* ----------------------------- evaluateVariantsInMemory, counted only
\* The same call for the n variants of a run asked for n variants per
\* iteration, following only how many evaluations are in progress: variants.map(async ...) starts every evaluation before
\* Promise.all is awaited; nothing holds any of them back.
EvaluateVariantsInMemoryDispatched ==
    /\ pc = "dispatched"
    /\ \E n \in 1..MaxDispatched :
         /\ config = [maxIterations |-> 1, variantsPerIteration |-> n,
                      beamWidth |-> MIN_BEAM_WIDTH]
         /\ variants = [i \in 1..n |-> "variant"]
    /\ baselineMetrics = MergeSeedMetrics
    /\ beam = << BaselineCandidate(MergeSeedMetrics) >>
    /\ allCandidates = <<>>
    /\ settled = <<>>
    /\ completionOrder = <<>>
    /\ evaluationsRunning = Len(variants)
    /\ outcome = NoOutcome
    /\ OptimizerIdle
    /\ rawVariants = <<>>
    /\ groupRankings = <<>>
    /\ leads = <<>>
    /\ modelCalls = <<>>
    /\ rankings = <<>>
    /\ qualifications = <<>>
    /\ leadsTable = <<>>
    /\ RetryIdle

\* One of the evaluations in progress ends.
VariantEvaluationEnds ==
    /\ pc = "dispatched"
    /\ evaluationsRunning > 0
    /\ evaluationsRunning' = evaluationsRunning - 1
    /\ UNCHANGED << pc, config, beam, allCandidates, baselineMetrics, variants,
                    outcome, settled, completionOrder, runVars, agentVars >>

\* No evaluation is left in progress: Promise.all settles.
AllVariantEvaluationsEnded ==
    /\ pc = "dispatched"
    /\ evaluationsRunning = 0
    /\ pc' = "all ended"
    /\ UNCHANGED << config, beam, allCandidates, baselineMetrics, variants,
                    outcome, settled, completionOrder, evaluationsRunning,
                    runVars, agentVars >>

\* ------------------------------------------- generateVariants on its own
\* VariantGenerator.generateVariants is called for numVariants texts.
GenerateVariantsCalled ==
    /\ pc = "generating"
    /\ config \in [maxIterations : {1}, variantsPerIteration : 1..MaxVariants,
                   beamWidth : {MIN_BEAM_WIDTH}]
    /\ baselineMetrics = MergeSeedMetrics
    /\ beam = << BaselineCandidate(MergeSeedMetrics) >>
    /\ allCandidates = <<>>
    /\ variants = <<>>
    /\ outcome = NoOutcome
    /\ OptimizerIdle
    /\ ComponentsIdle
    /\ RetryIdle

\* callVariantGenerationAI resolves with the model's texts; they are
\* filtered and cut, and returned.
VariantGenerationReturns ==
    /\ pc = "generating"
    /\ \E raw \in RawResponses(MergeTexts \cup InvalidTexts) :
         /\ rawVariants' = raw
         /\ variants' = generateVariants(raw, config.variantsPerIteration)
    /\ pc' = "generated"
    /\ outcome' = [kind |-> "return"]
    /\ UNCHANGED << config, beam, allCandidates, baselineMetrics, runVars,
                    settled, completionOrder, evaluationsRunning, groupRankings,
                    leads, modelCalls, rankings, qualifications, leadsTable >>

\* callVariantGenerationAI rejects: generateVariants rejects with it.
VariantGenerationRejects ==
    /\ pc = "generating"
    /\ pc' = "generation rejected"
    /\ outcome' = [kind |-> "throw", error |-> "variant generation failed"]
    /\ UNCHANGED << config, beam, allCandidates, baselineMetrics, variants,
                    runVars, componentVars >>

\* ------------------------------------------------------ ranking agent
\* Sequences over S of length at most n.
SeqsUpTo(S, n) == UNION { [1..k -> S] : k \in 0..n }

\* What one call of the ranking model ends in: a rejection, or a list of
\* at most n rankings for the given ids, in any order, with repetitions.
RankingResponses(ids, n) ==
    { [ok |-> FALSE] } \cup
    { [ok |-> TRUE, rankings |-> r] :
        r \in SeqsUpTo([leadId : ids, rank : 1..MaxRank], n) }

\* filterInvalidItems that lets every item through.
filterInvalidItems_KeepsAll(items, validItems) == items

\* Utils.filterInvalidItems: the items whose leadId is a valid id.
filterInvalidItems(items, validItems) ==
    SelectSeq(items, LAMBDA item :
                        \E i \in 1..Len(validItems) : validItems[i] = item.leadId)

\* Utils.findMissingItems: the expected items without a received item.
findMissingItems(expectedItems, receivedItems) ==
    SelectSeq(expectedItems, LAMBDA item :
                \A i \in 1..Len(receivedItems) : receivedItems[i].leadId # item)

\* RankingAgent.deduplicateRankings: the new rankings whose lead has no
\* ranking yet.
RankingAgent_deduplicateRankings(existing, newRankings) ==
    SelectSeq(newRankings, LAMBDA r :
                \A i \in 1..Len(existing) : existing[i].leadId # r.leadId)

\* retryMissingLeads, given what the retry call ends in: the rankings
\* after it (a rejection is caught and leaves them as they are).
RankingAgent_retryMissingLeads(missingLeads, soFar, retry) ==
    IF ~retry.ok THEN soFar
    ELSE soFar \o
         RankingAgent_deduplicateRankings(
            soFar, filterInvalidItems(retry.rankings, missingLeads))

\* handleMissingLeads without the test for missing leads: the retry call
\* is made in any case.
RankingAgent_handleMissingLeads_AlwaysRetries(inputLeads, validRankings, retry) ==
    LET missingLeads == findMissingItems(inputLeads, validRankings)
    IN [rankings |-> RankingAgent_retryMissingLeads(missingLeads, validRankings, retry),
        calls |-> << [leads |-> missingLeads, response |-> retry] >>]

\* handleMissingLeads: the rankings, and the model call made (none when
\* no lead is missing).
RankingAgent_handleMissingLeads(inputLeads, validRankings, retry) ==
    LET missingLeads == findMissingItems(inputLeads, validRankings)
    IN IF Len(missingLeads) > 0
       THEN [rankings |-> RankingAgent_retryMissingLeads(missingLeads, validRankings, retry),
             calls |-> << [leads |-> missingLeads, response |-> retry] >>]
       ELSE [rankings |-> validRankings, calls |-> <<>>]

\* performRanking: a rejection of the first call is thrown.
performRanking(inputLeads, initial, retry) ==
    IF ~initial.ok
    THEN [threw |-> TRUE, rankings |-> <<>>,
          calls |-> << [leads |-> inputLeads, response |-> initial] >>]
    ELSE LET h == RankingAgent_handleMissingLeads(
                     inputLeads, filterInvalidItems(initial.rankings, inputLeads), retry)
         IN [threw |-> FALSE, rankings |-> h.rankings,
             calls |-> << [leads |-> inputLeads, response |-> initial] >> \o h.calls]

\* rankQualifiedLeads that lets performRanking's error through.
rankQualifiedLeads_Rethrows(inputLeads, initial, retry) ==
    IF Len(inputLeads) = 0
    THEN [threw |-> FALSE, rankings |-> <<>>, calls |-> <<>>]
    ELSE performRanking(inputLeads, initial, retry)

\* rankQualifiedLeads: nothing to do for no leads; an error of
\* performRanking is caught and [] returned.
rankQualifiedLeads(inputLeads, initial, retry) ==
    IF Len(inputLeads) = 0
    THEN [threw |-> FALSE, rankings |-> <<>>, calls |-> <<>>]
    ELSE LET p == performRanking(inputLeads, initial, retry)
         IN IF p.threw THEN [p EXCEPT !.threw = FALSE, !.rankings = <<>>] ELSE p

\* --------------------------------------------------- runEvaluationCore
\* The concatenation of a sequence of sequences (Array.flat).
RECURSIVE Flat(_)
Flat(ss) == IF ss = <<>> THEN <<>> ELSE ss[1] \o Flat(Tail(ss))

\* EvaluationService.deduplicateRankings: the rankings of evaluation
\* leads, keyed by lead in a Map: one per lead, at the place of the
\* lead's first ranking, with the value of its last.
Evaluation_deduplicateRankings(allRankings, leadIds) ==
    LET valid == filterInvalidItems(allRankings, leadIds)
        first == { i \in 1..Len(valid) :
                     \A j \in 1..(i - 1) : valid[j].leadId # valid[i].leadId }
        last(id) == CHOOSE i \in 1..Len(valid) :
                       /\ valid[i].leadId = id
                       /\ \A j \in (i + 1)..Len(valid) : valid[j].leadId # id
    IN [k \in 1..Cardinality(first) |->
           valid[last(valid[CHOOSE i \in first :
                               Cardinality({ j \in first : j <= i }) = k].leadId)]]

\* alignPredictionsWithGroundTruth: for every evaluation lead with a
\* prediction, its ground truth and the prediction.
alignPredictionsWithGroundTruth(rs, leadIds) ==
    LET predicted(id) == rs[CHOOSE i \in 1..Len(rs) :
                               /\ rs[i].leadId = id
                               /\ \A j \in (i + 1)..Len(rs) : rs[j].leadId # id].rank
        matched == SelectSeq(leadIds, LAMBDA id :
                                \E i \in 1..Len(rs) : rs[i].leadId = id)
    IN [k \in 1..Len(matched) |->
           [groundTruth |-> groundTruthRank(matched[k]),
            predicted |-> predicted(matched[k])]]

RECURSIVE SumOfAbsErrors(_)
SumOfAbsErrors(alignedData) ==
    IF alignedData = <<>> THEN 0
    ELSE Abs(alignedData[1].predicted - alignedData[1].groundTruth)
         + SumOfAbsErrors(Tail(alignedData))

\* calculateMAE that answers 0 for empty arrays.
calculateMAE_ZeroOnEmpty(alignedData) ==
    IF Len(alignedData) = 0
    THEN [threw |-> FALSE, value |-> 0]
    ELSE [threw |-> FALSE,
          value |-> (SumOfAbsErrors(alignedData) * FloatUnit) \div Len(alignedData)]

\* calculateMAE over the predicted and the ground-truth ranks (two arrays
\* of one length, taken from alignedData): throws for empty arrays.
calculateMAE(alignedData) ==
    IF Len(alignedData) = 0
    THEN [threw |-> TRUE, error |-> "Cannot calculate MAE: empty arrays"]
    ELSE [threw |-> FALSE,
          value |-> (SumOfAbsErrors(alignedData) * FloatUnit) \div Len(alignedData)]

\* computeEvaluationMetrics: the mean absolute error is computed first;
\* the other metrics are functions of the same data and are not followed.
computeEvaluationMetrics(alignedData) == calculateMAE(alignedData)

\* What the ranking model can answer for a company in an evaluation: any
\* first response, and a retry response of at most one ranking.
EvaluationModelAnswers(companyLeads) ==
    LET ids == { companyLeads[i] : i \in 1..Len(companyLeads) } \cup {OutsideLead}
    IN [initial : RankingResponses(ids, Len(companyLeads)),
        retry : RankingResponses(ids, 1)]

\* The optimizer and the other operations at rest around a call of an
\* evaluation or agent operation.
OptimizerAtRest ==
    /\ config = [maxIterations |-> 1, variantsPerIteration |-> 1,
                 beamWidth |-> MIN_BEAM_WIDTH]
    /\ baselineMetrics = MergeSeedMetrics
    /\ beam = << BaselineCandidate(MergeSeedMetrics) >>
    /\ allCandidates = <<>>
    /\ variants = <<>>
    /\ outcome = NoOutcome
    /\ OptimizerIdle

\* runEvaluationCore is called: the evaluation leads are fetched and
\* grouped.
RunEvaluationCoreCalled ==
    /\ pc = "evaluating"
    /\ OptimizerAtRest
    /\ ComponentsIdle
    /\ RetryIdle

\* rankCompaniesInParallel resolves with every company's rankings (each
\* from its own rankQualifiedLeads call); they are deduplicated, aligned
\* with the ground truth, and the metrics are computed or throw.
RunEvaluationCore ==
    /\ pc = "evaluating"
    /\ \E answers \in [1..Len(leadsByCompany) -> UNION { EvaluationModelAnswers(leadsByCompany[g]) : g \in 1..Len(leadsByCompany) }] :
         /\ \A g \in 1..Len(leadsByCompany) :
               answers[g] \in EvaluationModelAnswers(leadsByCompany[g])
         /\ \E ranked \in {[g \in 1..Len(leadsByCompany) |->
                               rankQualifiedLeads(leadsByCompany[g],
                                                  answers[g].initial,
                                                  answers[g].retry)]} :
            \E deduplicated \in {Evaluation_deduplicateRankings(
                                     Flat([g \in 1..Len(ranked) |-> ranked[g].rankings]),
                                     evalLeads)} :
            \E metrics \in {computeEvaluationMetrics(
                                alignPredictionsWithGroundTruth(deduplicated, evalLeads))} :
              /\ groupRankings' = [g \in 1..Len(ranked) |-> ranked[g].rankings]
              /\ modelCalls' = Flat([g \in 1..Len(ranked) |-> ranked[g].calls])
              /\ rankings' = deduplicated
              /\ outcome' = IF metrics.threw
                            THEN [kind |-> "throw", error |-> metrics.error]
                            ELSE [kind |-> "return", mae |-> metrics.value]
              /\ pc' = IF metrics.threw THEN "evaluation rejected" ELSE "evaluated"
    /\ UNCHANGED << config, beam, allCandidates, baselineMetrics, variants,
                    runVars, settled, completionOrder, evaluationsRunning,
                    rawVariants, leads, qualifications, leadsTable >>

\* ------------------------------------------------- qualification agent
\* What one call of the qualification model ends in: a rejection, or a
\* list of at most n decisions for the given ids.
QualificationResponses(ids, n) ==
    { [ok |-> FALSE] } \cup
    { [ok |-> TRUE, qualifications |-> q] :
        q \in SeqsUpTo([leadId : ids, qualified : BOOLEAN, reasoning : {"model"}], n) }

\* QualificationAgent.deduplicateQualifications.
deduplicateQualifications(existing, newQualifications) ==
    SelectSeq(newQualifications, LAMBDA q :
                \A i \in 1..Len(existing) : existing[i].leadId # q.leadId)

\* createFallbackQualifications answering qualified: true.
createFallbackQualifications_Qualified(missingLeads) ==
    [i \in 1..Len(missingLeads) |->
        [leadId |-> missingLeads[i], qualified |-> TRUE,
         reasoning |-> "AI did not return qualification decision after retry"]]

\* createFallbackQualifications: qualified: false for each missing lead.
createFallbackQualifications(missingLeads) ==
    [i \in 1..Len(missingLeads) |->
        [leadId |-> missingLeads[i], qualified |-> FALSE,
         reasoning |-> "AI did not return qualification decision after retry"]]

\* createErrorFallbackQualifications: qualified: false for every lead.
createErrorFallbackQualifications(inputLeads) ==
    [i \in 1..Len(inputLeads) |->
        [leadId |-> inputLeads[i], qualified |-> FALSE,
         reasoning |-> "Error during AI qualification"]]

\* QualificationAgent.retryMissingLeads, given what the retry call ends
\* in: the response's decisions for leads without one are pushed as they
\* are; a rejection is caught.
QualificationAgent_retryMissingLeads(missingLeads, soFar, retry) ==
    IF ~retry.ok THEN soFar
    ELSE soFar \o deduplicateQualifications(soFar, retry.qualifications)

\* handleIncompleteQualifications: retry for the missing leads, then the
\* fallback for those still missing.
handleIncompleteQualifications(inputLeads, soFar, retry) ==
    LET missingLeads == findMissingItems(inputLeads, soFar)
        afterRetry == QualificationAgent_retryMissingLeads(missingLeads, soFar, retry)
        stillMissing == findMissingItems(inputLeads, afterRetry)
    IN IF Len(missingLeads) = 0
       THEN [qualifications |-> soFar, calls |-> <<>>]
       ELSE [qualifications |->
                IF Len(stillMissing) > 0
                THEN afterRetry \o createFallbackQualifications(stillMissing)
                ELSE afterRetry,
             calls |-> << [leads |-> missingLeads, response |-> retry] >>]

\* QualificationAgent.qualifyLeads.
qualifyLeads(inputLeads, initial, retry) ==
    IF Len(inputLeads) = 0
    THEN [qualifications |-> <<>>, calls |-> <<>>]
    ELSE IF ~initial.ok
    THEN [qualifications |-> createErrorFallbackQualifications(inputLeads),
          calls |-> << [leads |-> inputLeads, response |-> initial] >>]
    ELSE LET h == handleIncompleteQualifications(
                     inputLeads, initial.qualifications, retry)
         IN [qualifications |-> h.qualifications,
             calls |-> << [leads |-> inputLeads, response |-> initial] >> \o h.calls]

\* The qualified column of a leads row.
QualifiedColumn(q) == IF q THEN "true" ELSE "false"

\* The leads table before a batch is qualified: the leads of the batches,
\* and a lead of another batch, none qualified yet.
InitialLeadsTable == [id \in {"a", "b", OutsideLead} |-> "null"]

\* updateLeadsWithQualifications: the tables the UPDATE ... FROM (VALUES)
\* can leave. Every row whose id is among the values gets the qualified
\* of one of the values with its id (which one is not fixed when there
\* are several); the other rows stay.
updateLeadsWithQualifications(table, values) ==
    { t \in [DOMAIN table -> {"null", "true", "false"}] :
        \A id \in DOMAIN table :
           IF \E k \in 1..Len(values) : values[k].leadId = id
           THEN \E k \in 1..Len(values) :
                   /\ values[k].leadId = id
                   /\ t[id] = QualifiedColumn(values[k].qualified)
           ELSE t[id] = table[id] }

\* The batches a qualification run hands to processSingleBatch.
Batches == { << "a" >>, << "a", "b" >> }

\* processSingleBatch is called for a batch.
ProcessSingleBatchCalled ==
    /\ pc = "qualifying"
    /\ OptimizerAtRest
    /\ leads \in Batches
    /\ leadsTable = InitialLeadsTable
    /\ settled = <<>>
    /\ completionOrder = <<>>
    /\ evaluationsRunning = 0
    /\ rawVariants = <<>>
    /\ groupRankings = <<>>
    /\ modelCalls = <<>>
    /\ rankings = <<>>
    /\ qualifications = <<>>
    /\ RetryIdle

\* The ids a model response to a call for the leads can name.
NameableIds(inputLeads) ==
    { inputLeads[i] : i \in 1..Len(inputLeads) } \cup {OutsideLead}

\* processSingleBatch: the agent's qualifyLeads resolves, and its
\* decisions are written to the leads table and returned.
ProcessSingleBatch ==
    /\ pc = "qualifying"
    /\ \E initial, retry \in QualificationResponses(NameableIds(leads), MaxResponseLen) :
       \E q \in {qualifyLeads(leads, initial, retry)} :
          /\ qualifications' = q.qualifications
          /\ modelCalls' = q.calls
          /\ leadsTable' \in updateLeadsWithQualifications(leadsTable, q.qualifications)
    /\ pc' = "qualified"
    /\ outcome' = [kind |-> "return"]
    /\ UNCHANGED << config, beam, allCandidates, baselineMetrics, variants,
                    runVars, settled, completionOrder, evaluationsRunning,
                    rawVariants, groupRankings, leads, rankings >>

\* The UPDATE of the leads table throws: processSingleBatch rejects, and
\* nothing is written.
ProcessSingleBatchUpdateThrows ==
    /\ pc = "qualifying"
    /\ \E initial, retry \in QualificationResponses(NameableIds(leads), MaxResponseLen) :
       \E q \in {qualifyLeads(leads, initial, retry)} :
          /\ Len(q.qualifications) > 0
          /\ qualifications' = q.qualifications
          /\ modelCalls' = q.calls
    /\ pc' = "qualification rejected"
    /\ outcome' = [kind |-> "throw", error |-> "update leads failed"]
    /\ UNCHANGED << config, beam, allCandidates, baselineMetrics, variants,
                    runVars, settled, completionOrder, evaluationsRunning,
                    rawVariants, groupRankings, leads, rankings, leadsTable >>

\* ------------------------------------- rankQualifiedLeads on its own
\* The lead lists rankQualifiedLeads is called with.
RankingInputs == { <<>>, << "a" >>, << "a", "b" >> }

\* rankQualifiedLeads is called for the qualified leads of a company.
RankQualifiedLeadsCalled ==
    /\ pc = "ranking"
    /\ OptimizerAtRest
    /\ leads \in RankingInputs
    /\ leadsTable = <<>>
    /\ settled = <<>>
    /\ completionOrder = <<>>
    /\ evaluationsRunning = 0
    /\ rawVariants = <<>>
    /\ groupRankings = <<>>
    /\ modelCalls = <<>>
    /\ rankings = <<>>
    /\ qualifications = <<>>
    /\ RetryIdle

\* rankQualifiedLeads settles, after the model calls it made.
RankQualifiedLeads ==
    /\ pc = "ranking"
    /\ \E initial, retry \in RankingResponses(NameableIds(leads), MaxResponseLen) :
       \E r \in {rankQualifiedLeads(leads, initial, retry)} :
          /\ rankings' = r.rankings
          /\ modelCalls' = r.calls
          /\ outcome' = IF r.threw
                        THEN [kind |-> "throw", error |-> "ranking model call failed"]
                        ELSE [kind |-> "return"]
          /\ pc' = IF r.threw THEN "ranking rejected" ELSE "ranked"
    /\ UNCHANGED << config, beam, allCandidates, baselineMetrics, variants,
                    runVars, settled, completionOrder, evaluationsRunning,
                    rawVariants, groupRankings, leads, qualifications, leadsTable >>

\* ---------------------------------------------------------- the system
\* A behaviour is one call of one operation.
\* ------------------------------------------- the model-call wrapper
\* Messages of the errors a model call rejects with.
ErrorMessages ==
    { "429 Too Many Requests", "rate limit exceeded", "Too Many Requests",
      "Rate Limit Reached", "Invalid JSON response" }

\* String.prototype.toLowerCase on those messages.
toLowerCase(message) ==
    CASE message = "429 Too Many Requests" -> "429 too many requests"
      [] message = "rate limit exceeded"   -> "rate limit exceeded"
      [] message = "Too Many Requests"     -> "too many requests"
      [] message = "Rate Limit Reached"    -> "rate limit reached"
      [] message = "Invalid JSON response" -> "invalid json response"
      [] OTHER -> message

\* String.prototype.includes (case-sensitive) on those messages and their
\* lower-case forms, for the three needles isRateLimitError looks for.
includes(text, needle) ==
    CASE needle = "429" ->
            text \in { "429 Too Many Requests", "429 too many requests" }
      [] needle = "rate limit" ->
            text \in { "rate limit exceeded", "rate limit reached" }
      [] needle = "too many requests" ->
            text \in { "429 too many requests", "too many requests" }
      [] OTHER -> FALSE

isRateLimitError(message) ==
    \/ includes(message, "429")
    \/ includes(message, "rate limit")
    \/ includes(toLowerCase(message), "too many requests")

\* The catch clause of retryWithBackoff rethrows the error it caught.
rethrowsCaught_OnlyAtLastAttempt(message, n, maxRetries) ==
    n = maxRetries

rethrowsCaught(message, n, maxRetries) ==
    ~isRateLimitError(message) \/ n = maxRetries

backoffDelayMs_Linear(initialDelayMs, n) ==
    initialDelayMs * (n + 1)

\* delayMs of the timer set after the failed attempt n.
backoffDelayMs(initialDelayMs, n) ==
    initialDelayMs * 2 ^ n

\* Options a caller can pass; the defaults are those of RANKING_CONFIG.
RetryOptionsGiven ==
    [maxRetries : 0..MaxRetriesBound,
     initialDelayMs : { RANKING_CONFIG_AI_INITIAL_DELAY_MS,
                        2 * RANKING_CONFIG_AI_INITIAL_DELAY_MS }]

\* retryWithBackoff is called: the loop is about to make attempt 0.
RetryWithBackoffCalled ==
    /\ pc = "attempting"
    /\ OptimizerAtRest
    /\ retryOptions \in RetryOptionsGiven
    /\ attempt = 0
    /\ lastError = NoError
    /\ fnCalls = <<>>
    /\ delaysWaited = <<>>
    /\ settled = <<>>
    /\ completionOrder = <<>>
    /\ evaluationsRunning = 0
    /\ rawVariants = <<>>
    /\ groupRankings = <<>>
    /\ leads = <<>>
    /\ modelCalls = <<>>
    /\ rankings = <<>>
    /\ qualifications = <<>>
    /\ leadsTable = <<>>

retryUnchanged ==
    UNCHANGED << config, beam, allCandidates, baselineMetrics, variants, run,
                 statusWrites, promptVersions, evaluationResults,
                 seedWasEvaluated, loopVars, persistedBeam, error, settled,
                 completionOrder, evaluationsRunning, agentVars, retryOptions,
                 generatorCall >>

\* fn() resolves: its result is returned from inside the loop.
AttemptSucceeds ==
    /\ pc = "attempting"
    /\ attempt <= retryOptions.maxRetries
    /\ fnCalls' = Append(fnCalls, [ok |-> TRUE, value |-> Len(fnCalls) + 1])
    /\ outcome' = [kind |-> "return", value |-> Len(fnCalls) + 1]
    /\ pc' = "returned"
    /\ UNCHANGED << attempt, lastError, delaysWaited >>
    /\ retryUnchanged

\* fn() rejects: the catch clause keeps the error, and either rethrows it
\* or sets the backoff timer.
AttemptFails ==
    /\ pc = "attempting"
    /\ attempt <= retryOptions.maxRetries
    /\ \E message \in ErrorMessages :
         /\ fnCalls' = Append(fnCalls, [ok |-> FALSE, error |-> message])
         /\ lastError' = message
         /\ IF rethrowsCaught(message, attempt, retryOptions.maxRetries)
            THEN /\ outcome' = [kind |-> "throw", error |-> message]
                 /\ pc' = "thrown"
                 /\ UNCHANGED delaysWaited
            ELSE /\ delaysWaited' =
                       Append(delaysWaited,
                              backoffDelayMs(retryOptions.initialDelayMs, attempt))
                 /\ pc' = "backoff"
                 /\ UNCHANGED outcome
    /\ UNCHANGED attempt
    /\ retryUnchanged

\* The backoff timer fires: the loop goes to the next attempt.
BackoffElapses ==
    /\ pc = "backoff"
    /\ attempt' = attempt + 1
    /\ pc' = "attempting"
    /\ UNCHANGED << lastError, fnCalls, delaysWaited, outcome >>
    /\ retryUnchanged

Init ==
    \/ OptimizePromptWorkflowCalled
    \/ EvaluateVariantsInMemoryCalled
    \/ EvaluateVariantsInMemoryCalledLate
    \/ EvaluateVariantsInMemoryDispatched
    \/ GenerateVariantsCalled
    \/ RunEvaluationCoreCalled
    \/ ProcessSingleBatchCalled
    \/ RankQualifiedLeadsCalled
    \/ RetryWithBackoffCalled

Next ==
    \/ CreateOptimizationRun
    \/ CreateOptimizationRunThrows
    \/ LoadBaseline
    \/ EvaluateBaseline
    \/ EvaluateBaselineThrows
    \/ LoadBaselineThrows
    \/ PrepareIterationGradient
    \/ PrepareIterationGradientThrows
    \/ GenerateVariants
    \/ GenerateVariantsThrows
    \/ EvaluateVariantsAndUpdateBeam
    \/ EvaluateVariantsThrows
    \/ SkipBaseline
    \/ PersistNewPromptVersion
    \/ PersistNewPromptVersionThrows
    \/ CompleteOptimizationRun
    \/ CompleteOptimizationRunThrows
    \/ MarkOptimizationRunFailed
    \/ MarkOptimizationRunFailedThrows
    \/ SettleVariantEvaluation
    \/ SettleVariantEvaluationRejects
    \/ ResolveAndUpdateBeam
    \/ VariantEvaluationEnds
    \/ AllVariantEvaluationsEnded
    \/ VariantGenerationReturns
    \/ VariantGenerationRejects
    \/ RunEvaluationCore
    \/ ProcessSingleBatch
    \/ ProcessSingleBatchUpdateThrows
    \/ RankQualifiedLeads
    \/ AttemptSucceeds
    \/ AttemptFails
    \/ BackoffElapses

Spec == Init /\ [][Next]_vars

\* A step of optimizePromptWorkflow.
optimizePromptWorkflow ==
    \/ CreateOptimizationRun
    \/ CreateOptimizationRunThrows
    \/ LoadBaseline
    \/ EvaluateBaseline
    \/ EvaluateBaselineThrows
    \/ LoadBaselineThrows
    \/ PrepareIterationGradient
    \/ PrepareIterationGradientThrows
    \/ GenerateVariants
    \/ GenerateVariantsThrows
    \/ EvaluateVariantsAndUpdateBeam
    \/ EvaluateVariantsThrows
    \/ SkipBaseline
    \/ PersistNewPromptVersion
    \/ PersistNewPromptVersionThrows
    \/ CompleteOptimizationRun
    \/ CompleteOptimizationRunThrows
    \/ MarkOptimizationRunFailed
    \/ MarkOptimizationRunFailedThrows

\* One call of optimizePromptWorkflow, in which every await returns or
\* throws.
FairSpec ==
    /\ OptimizePromptWorkflowCalled
    /\ [][optimizePromptWorkflow]_vars
    /\ WF_vars(optimizePromptWorkflow)

\* ------------------------------------------------------------ properties
Terminal == {"done", "rejected"}
InLoop == {"gradient", "variants", "evaluate"}
AfterLoop == {"persist", "complete", "done"}

\* a ranks no lower than b in the tie-break order: kendallTau descending,
\* then spearman descending, then mae ascending.
RanksNoLower(a, b) ==
    \/ a.kendallTau > b.kendallTau
    \/ /\ a.kendallTau = b.kendallTau
       /\ \/ a.spearmanCorrelation > b.spearmanCorrelation
          \/ /\ a.spearmanCorrelation = b.spearmanCorrelation
             /\ a.mae <= b.mae

\* a and b are tied in the tie-break order (rmse is not looked at).
TiedInOrder(a, b) ==
    /\ a.kendallTau = b.kendallTau
    /\ a.spearmanCorrelation = b.spearmanCorrelation
    /\ a.mae = b.mae

\* q is the top n of a pool by the tie-break order, equally ranked members
\* in pool order: q picks distinct pool members (at indices f), in an order
\* in which no member ranks below a later one and equally ranked members
\* keep their pool order, and nothing left out ranks above a picked member
\* or equals it in rank from an earlier pool index.
IsTopOfPool(q, pool, n) ==
    /\ Len(q) = Min(n, Len(pool))
    /\ \E f \in [1..Len(q) -> 1..Len(pool)] :
         /\ \A p \in 1..Len(q) : q[p] = pool[f[p]]
         /\ \A p1, p2 \in 1..Len(q) :
               p1 < p2 =>
                  /\ f[p1] # f[p2]
                  /\ RanksNoLower(q[p1], q[p2])
                  /\ TiedInOrder(q[p1], q[p2]) => f[p1] < f[p2]
         /\ \A i \in 1..Len(pool) :
               (\A p \in 1..Len(q) : f[p] # i) =>
                  \A p \in 1..Len(q) :
                     /\ RanksNoLower(q[p], pool[i])
                     /\ TiedInOrder(q[p], pool[i]) => f[p] < i

BeamBounded == 1 <= Len(beam) /\ Len(beam) <= config.beamWidth

BeamOrdered ==
    \A i, j \in 1..Len(beam) : i < j => RanksNoLower(beam[i], beam[j])

\* The beam after an iteration is the top of (old beam, then the new
\* candidates) for some metrics of the evaluated variants.
BeamIsTopOfPool ==
    (pc = "evaluate" /\ pc' # "catch") =>
        \E ms \in [1..Len(variants) -> VariantMetrics] :
            IsTopOfPool(beam',
                        beam \o [i \in 1..Len(variants) |->
                                    InMemoryCandidate(variants[i], SeedId, ms[i])],
                        config.beamWidth)

\* C1: at loop entry and after every beam update the beam holds between 1
\* and beamWidth candidates, ordered best-first by kendallTau descending,
\* then spearman descending, then mae ascending; the new beam is the top of
\* the pool by that order alone, rmse playing no role.
C1_BeamBoundedAndOrdered ==
    /\ [](pc \in InLoop \cup AfterLoop => BeamBounded /\ BeamOrdered)
    /\ [][BeamIsTopOfPool]_vars

\* C1 witness: a full beam whose two members differ in mae only among the
\* metrics of the order, after an update that had to drop candidates.
C1_Witness ==
    /\ pc \in InLoop
    /\ iterationsRun >= 2
    /\ Len(beam) = config.beamWidth
    /\ beam[1].kendallTau = beam[2].kendallTau
    /\ beam[1].spearmanCorrelation = beam[2].spearmanCorrelation
    /\ beam[1].mae < beam[2].mae
    /\ beam[1].rmse > beam[2].rmse

\* C2: the best kendallTau of the beam never decreases from one iteration
\* to the next, and is never below the seed's.
C2_BeamMonotonic ==
    /\ [](beam # <<>> => beam[1].kendallTau >= baselineMetrics.kendallTau)
    /\ [][(beam # <<>> /\ beam' # <<>>) =>
             beam'[1].kendallTau >= beam[1].kendallTau]_vars

\* C2 witness: after an iteration whose variants were all worse than the
\* best so far, the best is still the earlier one.
C2_Witness ==
    /\ pc \in InLoop
    /\ iterationsRun >= 2
    /\ Len(beam) = 2
    /\ beam[1].kendallTau = 705
    /\ beam[2].kendallTau = 700
    /\ beam[1].kendallTau > baselineMetrics.kendallTau

\* An iteration ends (runIteration returns).
IterationEnds == pc = "evaluate" /\ pc' # "catch"

\* C3: the run stops at the end of the first iteration that is not among
\* the first 2 (0-based index >= 2) and whose improvement of the best
\* kendallTau is below 0.01.
C3_StopsAtFirstSmallImprovement ==
    [][(/\ IterationEnds
        /\ iteration >= MIN_ITERATIONS_BEFORE_CONVERGENCE
        /\ beam'[1].kendallTau - beam[1].kendallTau < CONVERGENCE_THRESHOLD)
       => (convergedEarly' /\ pc' = "persist" /\ iteration' = iteration)]_vars

\* C4: the convergence check never stops a run in its first 2 iterations,
\* and a run with maxIterations >= 2 that leaves the loop has executed at
\* least 2 iterations.
C4_NoConvergenceInFirstTwo ==
    /\ convergedEarly => iteration >= 2
    /\ (pc \in AfterLoop /\ config.maxIterations >= 2) => iterationsRun >= 2

\* C4 witness: two iterations brought no improvement at all (the seed is
\* still the best) and the run goes on.
C4_Witness ==
    /\ pc = "gradient"
    /\ iterationsRun = 2
    /\ beam[1].id = SeedId

StatusUpdateError == "update optimization_runs failed"

StageErrors ==
    { "Cannot calculate MAE: empty arrays", "gradient generation failed",
      "variant generation failed" }

InitialEvaluationResults == IF seedWasEvaluated THEN {SeedId} ELSE {}

\* C8: a run that ends failed has written no prompt version, no metrics
\* and no evaluation record.
C8_NoPartialPersistence ==
    (run # NoRun /\ run.status = "failed") =>
        /\ Len(promptVersions) = 1
        /\ evaluationResults = InitialEvaluationResults
        /\ ~seedWasEvaluated => promptVersions[SeedId].metrics = NoMetrics

\* Final beam members without a durable id, in beam order.
RECURSIVE NewMembers(_)
NewMembers(b) ==
    IF b = <<>> THEN <<>>
    ELSE IF b[1].id = 0 THEN <<b[1]>> \o NewMembers(Tail(b))
    ELSE NewMembers(Tail(b))

NewVersionIds == 2..Len(promptVersions)

\* The versions created are the final beam members without id, one each.
CreatedAreFinalBeam ==
    /\ Len(promptVersions) = 1 + Len(NewMembers(beam))
    /\ \A i \in 1..Len(NewMembers(beam)) :
         /\ promptVersions[1 + i].promptText = NewMembers(beam)[i].promptText
         /\ promptVersions[1 + i].metrics = MetricsOf(NewMembers(beam)[i])
         /\ promptVersions[1 + i].parentVersionId = NewMembers(beam)[i].parentVersionId
         /\ beam[promptVersions[1 + i].beamRank] = NewMembers(beam)[i]

ReturnedIsFormula(best, seed) ==
    IF seed.kendallTau = 0 THEN outcome.improvementPercentage = 0
    ELSE /\ (best.kendallTau >= seed.kendallTau) = (outcome.improvementPercentage >= 0)
         /\ Abs(Abs(outcome.improvementPercentage) * Abs(seed.kendallTau)
                - Abs(best.kendallTau - seed.kendallTau) * 100 * FloatUnit)
              < Abs(seed.kendallTau)

BestIsFirstOfBeam ==
    /\ run.bestPromptId = outcome.bestPromptId
    /\ IF beam[1].id # 0 THEN run.bestPromptId = beam[1].id
       ELSE /\ run.bestPromptId \in NewVersionIds
            /\ promptVersions[run.bestPromptId].promptText = beam[1].promptText
            /\ promptVersions[run.bestPromptId].metrics = MetricsOf(beam[1])
            /\ promptVersions[run.bestPromptId].beamRank = 1

\* C10 as stated: bestPromptId is the first beam member's id, the value
\* returned is the formula's, and the value stored equals it.
C10_StoredEqualsReturned ==
    pc = "done" =>
        /\ BestIsFirstOfBeam
        /\ ReturnedIsFormula(beam[1], promptVersions[SeedId].metrics)
        /\ run.improvementPercentage * (FloatUnit \div NumericUnit)
              = outcome.improvementPercentage

\* C10 amended: bestPromptId is the first beam member's id, the value
\* returned is the formula's (0 for a seed kendallTau of 0), and the value
\* stored is the returned one rounded to two decimals.
C10_StoredIsReturnedRounded ==
    pc = "done" =>
        /\ BestIsFirstOfBeam
        /\ ReturnedIsFormula(beam[1], promptVersions[SeedId].metrics)
        /\ 2 * Abs(run.improvementPercentage * (FloatUnit \div NumericUnit)
                   - outcome.improvementPercentage)
              <= FloatUnit \div NumericUnit

\* C10 witness: a completed run over a negative seed whose percentage is
\* not a multiple of 0.01.
C10_Witness ==
    /\ pc = "done"
    /\ promptVersions[SeedId].metrics.kendallTau < 0
    /\ beam[1].id = 0
    /\ run.improvementPercentage * (FloatUnit \div NumericUnit)
          # outcome.improvementPercentage

\* The candidates of one iteration, in the order of the variants.
CandidatesInVariantOrder ==
    [i \in 1..Len(variants) |-> InMemoryCandidate(variants[i], SeedId, settled[i].value)]

\* The indices of the candidates that join the trajectory traj: the text
\* is not on it and no earlier candidate has the same text.
JoinsTrajectory(traj, cands) ==
    { i \in 1..Len(cands) :
        /\ \A k \in 1..Len(traj) : traj[k].promptText # cands[i].promptText
        /\ \A j \in 1..(i - 1) : cands[j].promptText # cands[i].promptText }

\* traj followed by the joining candidates, in index order.
TrajectoryAfter(traj, cands) ==
    LET keep == JoinsTrajectory(traj, cands)
    IN traj \o [k \in 1..Cardinality(keep) |->
                   cands[CHOOSE i \in keep :
                            Cardinality({ j \in keep : j <= i }) = k]]

\* C11: the variants of one iteration are evaluated concurrently and
\* merged only after all of them have settled; the merged beam and
\* trajectory are those of the candidates taken in the order of the
\* variants, whatever order the evaluations completed in.
C11_MergeIndependentOfCompletionOrder ==
    [][(pc = "settling" /\ pc' = "merged") =>
          /\ \A i \in 1..Len(variants) : settled[i] # Pending
          /\ IsTopOfPool(beam', beam \o CandidatesInVariantOrder, config.beamWidth)
          /\ allCandidates' =
                pruneTrajectory(TrajectoryAfter(allCandidates, CandidatesInVariantOrder))]_vars

\* C11 witness: two variants with different texts whose evaluations
\* completed in reverse order and tie in the tie-break order; the beam,
\* full after the earlier best, took the first variant's candidate.
C11_Witness ==
    /\ pc = "merged"
    /\ completionOrder = << 2, 1 >>
    /\ variants[1] # variants[2]
    /\ settled[1] # settled[2]
    /\ TiedInOrder(settled[1].value, settled[2].value)
    /\ Len(beam) = 2
    /\ beam[1] = InMemoryCandidate("variant", SeedId, MergeBestMetrics)
    /\ beam[2] = InMemoryCandidate(variants[1], SeedId, settled[1].value)
    /\ Len(allCandidates) = 2

HasAllPlaceholders(text) ==
    \A p \in REQUIRED_PROMPT_PLACEHOLDERS : p \in PlaceholdersIn(text)

\* The indices of the response's texts that have every placeholder.
ValidRawIndices ==
    { i \in 1..Len(rawVariants) : HasAllPlaceholders(rawVariants[i]) }

\* The returned texts are the first texts of the response that have every
\* placeholder, unchanged and in the response's order, numVariants of
\* them at most.
ReturnedAreFirstValid ==
    /\ Len(variants) = Min(config.variantsPerIteration, Cardinality(ValidRawIndices))
    /\ \A k \in 1..Len(variants) :
          \E i \in ValidRawIndices :
             /\ Cardinality({ j \in ValidRawIndices : j <= i }) = k
             /\ variants[k] = rawVariants[i]

\* C13: every text generateVariants returns has all seven required
\* placeholders, a text missing one is dropped and not repaired, and at
\* most numVariants texts are returned; so every variant evaluated, every
\* beam member and every persisted prompt version has all of them.
C13_OnlyValidVariants ==
    /\ Cardinality(REQUIRED_PROMPT_PLACEHOLDERS) = 7
    /\ Len(variants) <= config.variantsPerIteration
    /\ \A i \in 1..Len(variants) : HasAllPlaceholders(variants[i])
    /\ pc = "generated" => ReturnedAreFirstValid
    /\ \A i \in 1..Len(beam) : HasAllPlaceholders(beam[i].promptText)
    /\ \A i \in 1..Len(allCandidates) : HasAllPlaceholders(allCandidates[i].promptText)
    /\ \A i \in 1..Len(promptVersions) : HasAllPlaceholders(promptVersions[i].promptText)

\* C13 witness: a response of three texts, the first missing a single
\* placeholder, cut to one text: the second of the response.
C13_Witness ==
    /\ pc = "generated"
    /\ config.variantsPerIteration = 1
    /\ Len(rawVariants) = 3
    /\ rawVariants[1] = "variant without INDUSTRY"
    /\ HasAllPlaceholders(rawVariants[2])
    /\ HasAllPlaceholders(rawVariants[3])
    /\ rawVariants[2] # rawVariants[3]
    /\ variants = << rawVariants[2] >>

\* The candidates an iteration step put into the beam.
CreatedInStep ==
    { beam'[i] : i \in 1..Len(beam') } \ { beam[i] : i \in 1..Len(beam) }

\* id is the identifier of candidate c (a candidate not persisted has
\* none).
Identifies(id, c) == c.id # 0 /\ id = c.id

\* Every persisted version but the seed has a parent created before it,
\* so that following the parents ends at the seed; the seed in the beam
\* is its own parent.
ParentsLeadToSeed ==
    /\ \A v \in NewVersionIds :
          /\ promptVersions[v].parentVersionId >= SeedId
          /\ promptVersions[v].parentVersionId < v
    /\ \A i \in 1..Len(beam) :
          beam[i].id = SeedId => beam[i].parentVersionId = SeedId

\* A step in which an iteration's candidates are merged into the beam.
IterationMerges ==
    \/ pc = "evaluate" /\ pc' # "catch"
    \/ pc = "settling" /\ pc' = "merged"

\* C14 as stated: every candidate created in an iteration carries the
\* identifier of the candidate it was mutated from, the first of the beam
\* of that iteration, as its parent; the seed is its own parent, and
\* following the parents reaches the seed, each parent older than its
\* child.
C14_ParentIsMutatedFrom ==
    /\ [][IterationMerges =>
             \A c \in CreatedInStep : Identifies(c.parentVersionId, beam[1])]_vars
    /\ []ParentsLeadToSeed

\* The evaluation leads that have a ranking from some company's call.
CoveredLeads ==
    { evalLeads[i] : i \in 1..Len(evalLeads) } \cap
    UNION { { groupRankings[g][k].leadId : k \in 1..Len(groupRankings[g]) } :
              g \in 1..Len(groupRankings) }

EmptyArraysError == "Cannot calculate MAE: empty arrays"

\* An evaluation returns metrics only if some lead is covered, and throws
\* the empty-arrays error when none is.
ZeroCoverageThrows ==
    /\ pc = "evaluated" => CoveredLeads # {} /\ outcome.kind = "return"
    /\ pc = "evaluation rejected" =>
          /\ CoveredLeads = {}
          /\ outcome = [kind |-> "throw", error |-> EmptyArraysError]

DecisionReturned(k, id) ==
    /\ modelCalls[k].response.ok
    /\ \E j \in 1..Len(modelCalls[k].response.qualifications) :
          modelCalls[k].response.qualifications[j].leadId = id

\* The decisions the agent returned for the lead.
DecisionsFor(id) ==
    { qualifications[j] : j \in { i \in 1..Len(qualifications) :
                                      qualifications[i].leadId = id } }

\* C16: qualifyLeads returns a decision for every input lead; a lead for
\* which no call of the model returned a decision is reported qualified =
\* false, once; when the initial call fails every input lead is reported
\* qualified = false.
C16_MissingLeadsDisqualified ==
    pc \in {"qualified", "qualification rejected"} =>
        /\ \A i \in 1..Len(leads) : DecisionsFor(leads[i]) # {}
        /\ \A i \in 1..Len(leads) :
              (\A k \in 1..Len(modelCalls) : ~DecisionReturned(k, leads[i])) =>
                 /\ \A d \in DecisionsFor(leads[i]) : ~d.qualified
                 /\ Cardinality({ j \in 1..Len(qualifications) :
                                     qualifications[j].leadId = leads[i] }) = 1
        /\ ~modelCalls[1].response.ok =>
              /\ Len(modelCalls) = 1
              /\ Len(qualifications) = Len(leads)
              /\ \A i \in 1..Len(leads) :
                    /\ qualifications[i].leadId = leads[i]
                    /\ ~qualifications[i].qualified

\* C16 witness: of two leads the initial response qualified the first
\* only, and the retry answered without a decision for the second: it is
\* reported not qualified, and written so.
C16_Witness ==
    /\ pc = "qualified"
    /\ leads = << "a", "b" >>
    /\ Len(modelCalls) = 2
    /\ modelCalls[1].response.ok
    /\ modelCalls[2].response.ok
    /\ modelCalls[2].leads = << "b" >>
    /\ ~DecisionReturned(1, "b")
    /\ ~DecisionReturned(2, "b")
    /\ qualifications[1] = [leadId |-> "a", qualified |-> TRUE, reasoning |-> "model"]
    /\ qualifications[Len(qualifications)].leadId = "b"
    /\ ~qualifications[Len(qualifications)].qualified
    /\ leadsTable["b"] = "false"

\* The ids of a list of leads.
IdsOf(ls) == { ls[i] : i \in 1..Len(ls) }

\* The entries of the response to call k of the agent (none when the
\* call was not made or failed).
RankingsReturned(k) ==
    IF k <= Len(modelCalls) /\ modelCalls[k].response.ok
    THEN { modelCalls[k].response.rankings[j] :
             j \in 1..Len(modelCalls[k].response.rankings) }
    ELSE {}

\* The rankings the agent returned.
RankingsInResult == { rankings[j] : j \in 1..Len(rankings) }

\* The input leads the valid part of the initial response has no entry
\* for.
MissingAfterInitial ==
    { id \in IdsOf(leads) : \A r \in RankingsReturned(1) : r.leadId # id }

\* C17: rankQualifiedLeads returns only entries whose leadId is an input
\* lead: of the initial response exactly the entries for input leads are
\* kept, and of the retry response only entries for missing leads.
C17_OnlyInputLeadsRanked ==
    pc = "ranked" =>
        /\ \A r \in RankingsInResult : r.leadId \in IdsOf(leads)
        /\ \A r \in RankingsReturned(1) :
              r \in RankingsInResult <=> r.leadId \in IdsOf(leads)
        /\ \A r \in RankingsInResult :
              \/ r \in RankingsReturned(1)
              \/ r \in RankingsReturned(2) /\ r.leadId \in MissingAfterInitial

\* C17 witness: both the initial and the retry response named a lead
\* that is not in the input; the result has the two input leads only.
C17_Witness ==
    /\ pc = "ranked"
    /\ leads = << "a", "b" >>
    /\ Len(modelCalls) = 2
    /\ \E r \in RankingsReturned(1) : r.leadId = OutsideLead
    /\ \E r \in RankingsReturned(2) : r.leadId = OutsideLead
    /\ Len(rankings) = 2
    /\ rankings[1].leadId = "a"
    /\ rankings[2].leadId = "b"

\* C18 as stated: qualifyLeads discards every returned entry whose
\* leadId is not in the input set, so no decision for a lead outside the
\* batch is returned or written.
C18_OnlyBatchLeadsQualified ==
    pc \in {"qualified", "qualification rejected"} =>
        /\ \A j \in 1..Len(qualifications) :
              qualifications[j].leadId \in IdsOf(leads)
        /\ \A id \in DOMAIN leadsTable :
              id \notin IdsOf(leads) => leadsTable[id] = InitialLeadsTable[id]

\* The input leads, in input order, without a kept initial entry.
MissingLeadsInOrder ==
    SelectSeq(leads, LAMBDA id : id \in MissingAfterInitial)

\* C19: one rankQualifiedLeads call calls the model at most twice; the
\* second call is made exactly when the first succeeded and its valid
\* entries miss an input lead, and its prompt lists exactly the missing
\* leads; a lead still missing has no entry in the result, and every
\* entry of the result is an entry of a response.
C19_SingleRetryOfMissing ==
    pc = "ranked" =>
        /\ Len(modelCalls) <= 2
        /\ Len(modelCalls) = 0 <=> Len(leads) = 0
        /\ Len(modelCalls) >= 1 => modelCalls[1].leads = leads
        /\ Len(modelCalls) = 2 <=>
              /\ Len(leads) > 0
              /\ modelCalls[1].response.ok
              /\ MissingAfterInitial # {}
        /\ Len(modelCalls) = 2 => modelCalls[2].leads = MissingLeadsInOrder
        /\ \A r \in RankingsInResult :
              r \in RankingsReturned(1) \cup RankingsReturned(2)
        /\ \A id \in IdsOf(leads) :
              (\A r \in RankingsReturned(1) \cup RankingsReturned(2) : r.leadId # id)
                 => \A r \in RankingsInResult : r.leadId # id

\* C19 witness: of two leads the initial response ranked the first; the
\* retry, asked for the second alone, answered without it: the result has
\* the first lead only, after two calls.
C19_Witness ==
    /\ pc = "ranked"
    /\ leads = << "a", "b" >>
    /\ Len(modelCalls) = 2
    /\ modelCalls[2].leads = << "b" >>
    /\ modelCalls[2].response.ok
    /\ \A r \in RankingsReturned(2) : r.leadId # "b"
    /\ Len(rankings) = 1
    /\ rankings[1].leadId = "a"

\* The entries of the initial response for input leads, in its order.
ValidInitialRankings ==
    SelectSeq(modelCalls[1].response.rankings,
              LAMBDA r : r.leadId \in IdsOf(leads))

\* C20: rankQualifiedLeads never throws; when the initial model call
\* fails the result is empty, and when the retry call fails the result
\* is the valid rankings of the initial call.
C20_AgentNeverThrows ==
    /\ pc # "ranking rejected"
    /\ pc = "ranked" =>
          /\ outcome = [kind |-> "return"]
          /\ (Len(modelCalls) >= 1 /\ ~modelCalls[1].response.ok) =>
                 rankings = <<>>
          /\ (Len(modelCalls) = 2 /\ ~modelCalls[2].response.ok) =>
                 rankings = ValidInitialRankings

\* C20 witness: the initial response ranked one of two leads and named an
\* outside lead, the retry call failed: the result is the one ranking.
C20_Witness ==
    /\ pc = "ranked"
    /\ leads = << "a", "b" >>
    /\ Len(modelCalls) = 2
    /\ ~modelCalls[2].response.ok
    /\ Len(modelCalls[1].response.rankings) = 2
    /\ Len(rankings) = 1
    /\ rankings[1].leadId = "a"
    /\ outcome.kind = "return"

\* ------------------------------------------- the model-call wrapper
\* The k-th call of fn failed with an error that is no rate-limit error.
FailedOtherwise(k) ==
    /\ ~fnCalls[k].ok
    /\ ~isRateLimitError(fnCalls[k].error)

\* C21: in retryWithBackoff an error that is not a rate-limit error is
\* propagated at once, whatever maxRetries is: the failed call is the last
\* call of fn, its error is the one thrown and no delay is waited after
\* it; every call followed by another attempt failed with a rate-limit
\* error.
C21_OtherErrorsPropagateAtOnce ==
    /\ \A k \in 1..Len(fnCalls) :
         FailedOtherwise(k) =>
             /\ k = Len(fnCalls)
             /\ pc = "thrown"
             /\ outcome = [kind |-> "throw", error |-> fnCalls[k].error]
             /\ Len(delaysWaited) = k - 1
    /\ \A k \in 1..(Len(fnCalls) - 1) :
         /\ ~fnCalls[k].ok
         /\ isRateLimitError(fnCalls[k].error)

\* C21 witness: with three retries allowed, the second call fails with an
\* error that is no rate-limit error and is thrown after one delay.
C21_Witness ==
    /\ pc = "thrown"
    /\ retryOptions.maxRetries = 3
    /\ Len(fnCalls) = 2
    /\ fnCalls[2] = [ok |-> FALSE, error |-> "Rate Limit Reached"]
    /\ outcome = [kind |-> "throw", error |-> "Rate Limit Reached"]
    /\ Len(delaysWaited) = 1

\* C22: retryWithBackoff calls fn at most maxRetries + 1 times; the
\* delay set before the k-th retry is initialDelayMs * 2^(k-1); when
\* every attempt failed with a rate-limit error there were exactly
\* maxRetries + 1 attempts and the last error is the one thrown; a call
\* of fn that succeeds is the last one and its result is returned.
C22_BoundedAttemptsWithBackoff ==
    /\ Len(fnCalls) <= retryOptions.maxRetries + 1
    /\ \A k \in 1..Len(delaysWaited) :
         delaysWaited[k] = retryOptions.initialDelayMs * 2 ^ (k - 1)
    /\ pc = "thrown" =>
         /\ ~fnCalls[Len(fnCalls)].ok
         /\ outcome = [kind |-> "throw", error |-> fnCalls[Len(fnCalls)].error]
         /\ isRateLimitError(fnCalls[Len(fnCalls)].error) =>
                Len(fnCalls) = retryOptions.maxRetries + 1
    /\ \A k \in 1..Len(fnCalls) :
         fnCalls[k].ok =>
             /\ k = Len(fnCalls)
             /\ pc = "returned"
             /\ outcome = [kind |-> "return", value |-> fnCalls[k].value]

\* C22 witness: with the default options every one of the four attempts
\* fails with a rate-limit error; 500, 1000 and 2000 ms were waited and
\* the last error is thrown.
C22_Witness ==
    /\ pc = "thrown"
    /\ retryOptions = [maxRetries |-> RANKING_CONFIG_AI_MAX_RETRIES,
                       initialDelayMs |-> RANKING_CONFIG_AI_INITIAL_DELAY_MS]
    /\ Len(fnCalls) = RANKING_CONFIG_AI_MAX_RETRIES + 1
    /\ delaysWaited = << 500, 1000, 2000 >>
    /\ fnCalls[4].error = "Too Many Requests"
    /\ outcome = [kind |-> "throw", error |-> "Too Many Requests"]

\* ------------------------------------------ generation from the beam
\* Prompt texts of the members of a beam.
PromptTextsOf(candidates) ==
    { candidates[i].promptText : i \in 1..Len(candidates) }

\* C23: in each generation after the first, variants are generated from
\* every member of the current beam: when the generator has returned,
\* every beam member's prompt was the currentPrompt of a generator call
\* of this iteration.  (The one call made is from beam[0] only.)
C23_GeneratedFromEveryBeamMember ==
    (pc = "evaluate" /\ iteration >= 1) =>
        PromptTextsOf(beam) \subseteq { generatorCall.currentPrompt }

\* --------------------------------------------- fewer variants than asked
\* Elements of a sequence.
Range(seq) == { seq[i] : i \in 1..Len(seq) }

\* The generator returned fewer valid variants than requested.
FewerThanRequested ==
    /\ pc = "evaluate"
    /\ Len(variants) < generatorCall.numVariants

\* C24: an iteration whose generator call yields fewer valid variants
\* than requested completes without error on that account.  With no
\* survivor the step cannot throw: beam and trajectory stay as they are,
\* the iteration counts, and the convergence check decides (on a zero
\* improvement) whether the loop goes on.  With some survivors, the step
\* that does not throw evaluates only them: every new beam member has a
\* survivor's text and the trajectory grows by at most their number.
C24_ProceedsWithSurvivors ==
    [][ FewerThanRequested =>
          /\ Len(variants) = 0 =>
                /\ pc' \in {"gradient", "persist"}
                /\ error' = NoError
                /\ beam' = beam
                /\ allCandidates' = allCandidates
                /\ iterationsRun' = iterationsRun + 1
                /\ convergedEarly' =
                      checkConvergence(
                          validateBeamState(beam, BaselineCandidate(baselineMetrics)),
                          validateBeamState(beam, BaselineCandidate(baselineMetrics)),
                          iteration)
          /\ pc' # "catch" =>
                /\ pc' \in {"gradient", "persist"}
                /\ iterationsRun' = iterationsRun + 1
                /\ \A i \in 1..Len(beam') :
                      \/ beam'[i] \in Range(beam)
                      \/ beam'[i].promptText \in Range(variants)
                /\ Len(allCandidates') <= Len(allCandidates) + Len(variants)
      ]_vars

\* C24 witness: two variants were requested in iteration 0 and none
\* survived (nothing joined the trajectory); the iteration completed with
\* the beam still the baseline alone and the loop goes on to iteration 1.
C24_Witness ==
    /\ pc = "gradient"
    /\ iterationsRun = 1
    /\ iteration = 1
    /\ generatorCall.numVariants = 2
    /\ allCandidates = <<>>
    /\ Len(beam) = 1
    /\ beam[1].id = SeedId
    /\ error = NoError

\* ------------------------------------------------------ the trajectory
\* Indices of the candidates of a sequence with the given prompt text.
WithText(candidates, text) ==
    { i \in 1..Len(candidates) : candidates[i].promptText = text }

\* C25: after every iteration the trajectory holds no two candidates with
\* the same prompt text, two equal texts of one iteration included, and
\* at most MAX_TRAJECTORY_SIZE candidates.
C25_TrajectoryDistinctAndBounded ==
    /\ \A i \in 1..Len(allCandidates) :
          WithText(allCandidates, allCandidates[i].promptText) = {i}
    /\ Len(allCandidates) <= MAX_TRAJECTORY_SIZE

\* C25 witness: on a full trajectory with rising kendallTau, an iteration
\* produced the same new text twice; one candidate with that text was
\* pushed and the trajectory was pruned back to its maximum size (it is
\* now led by its best-scoring candidate, the last one pushed before).
C25_Witness ==
    /\ pc = "merged"
    /\ variants = << "new variant", "new variant" >>
    /\ Len(allCandidates) = MAX_TRAJECTORY_SIZE
    /\ Cardinality(WithText(allCandidates, "new variant")) = 1
    /\ allCandidates[1].promptText = "variant 50"
    /\ WithText(allCandidates, "variant 1") = {}

\* Candidates of the iteration being merged, and the pool its merge
\* prunes: the trajectory before, and the candidates just evaluated.
PrunedPool == Range(allCandidates) \cup Range(CandidatesInVariantOrder)

\* a ranks strictly above b in the candidate ranking order.
RanksAbove(a, b) == RanksNoLower(a, b) /\ ~TiedInOrder(a, b)

\* C26: when the trajectory is pruned the entries dropped are the
\* worst-scoring ones: no candidate dropped ranks above a candidate kept
\* in the order kendallTau descending, spearman descending, mae
\* ascending.  (pruneTrajectory compares kendallTau only.)
C26_PrunedAreWorstInRankingOrder ==
    [][(pc = "settling" /\ pc' = "merged") =>
          \A dropped \in PrunedPool :
             WithText(allCandidates', dropped.promptText) = {} =>
                \A i \in 1..Len(allCandidates') :
                   ~RanksAbove(dropped, allCandidates'[i])]_vars

\* ------------------------------------------- duplicate predictions
\* The first entry for a lead id in a sequence of rankings.
FirstFor(rs, id) ==
    rs[CHOOSE i \in 1..Len(rs) :
          /\ rs[i].leadId = id
          /\ \A j \in 1..(i - 1) : rs[j].leadId # id]

\* C27: when the flattened group results of an evaluation hold several
\* predictions for one lead, the evaluation keeps the first one: every
\* prediction kept (and used for the metrics) is the first entry for its
\* lead in the flattened results.  (The Map built from the entries keeps
\* the last one.)
C27_FirstPredictionWins ==
    pc \in {"evaluated", "evaluation rejected"} =>
        \A k \in 1..Len(rankings) :
            rankings[k] = FirstFor(Flat(groupRankings), rankings[k].leadId)

\* C28: the result of rankQualifiedLeads holds at most one ranking per
\* lead id, whatever duplicates the initial or the retry response holds,
\* and an entry from the initial response is never replaced or duplicated
\* by a retry entry: the valid initial entries open the result as they
\* are, and no later entry names one of their leads.  (Two entries for
\* one lead in a single response both stay.)
C28_OneRankingPerLead ==
    pc = "ranked" =>
        /\ \A i, j \in 1..Len(rankings) :
              i < j => rankings[i].leadId # rankings[j].leadId
        /\ (Len(modelCalls) >= 1 /\ modelCalls[1].response.ok) =>
              /\ Len(rankings) >= Len(ValidInitialRankings)
              /\ SubSeq(rankings, 1, Len(ValidInitialRankings)) = ValidInitialRankings
              /\ \A j \in (Len(ValidInitialRankings) + 1)..Len(rankings) :
                    \A i \in 1..Len(ValidInitialRankings) :
                       rankings[j].leadId # ValidInitialRankings[i].leadId

\* ---------------------------------------------- equal texts in the beam
\* C29: the beam never holds two candidates with the same prompt text,
\* and no prompt text is persisted as a second prompt version.  (updateBeam
\* merges by metrics only, so a variant with the text of a beam member or
\* of another variant of its iteration takes a slot of its own, and
\* persistFinalBeam inserts a version for each.)
C29_BeamTextsDistinct ==
    /\ \A i \in 1..Len(beam) : WithText(beam, beam[i].promptText) = {i}
    /\ \A i \in 1..Len(promptVersions) :
          WithText(promptVersions, promptVersions[i].promptText) = {i}

\* ------------------------------------------------- iterations recorded
\* C30: the totalIterations recorded on a completed run is the number of
\* iterations executed: i + 1 when the convergence check stopped the run
\* at the 0-based iteration i, maxIterations when the loop ran to its
\* end; hence it lies between 1 and maxIterations.
C30_TotalIterationsIsIterationsRun ==
    run.status = "completed" =>
        /\ run.totalIterations = iterationsRun
        /\ convergedEarly => run.totalIterations = iteration + 1
        /\ ~convergedEarly => run.totalIterations = config.maxIterations
        /\ 1 <= run.totalIterations
        /\ run.totalIterations <= config.maxIterations

\* C30 witness: with five iterations allowed, the convergence check
\* stopped the run at the 0-based iteration 3 and 4 is recorded.
C30_Witness ==
    /\ run.status = "completed"
    /\ config.maxIterations = 5
    /\ convergedEarly
    /\ iteration = 3
    /\ iterationsRun = 4
    /\ run.totalIterations = 4

====
